---- MODULE Spec2Model ----
(***************************************************************************)
(* Model of the gull.to taxonomic-reconciliation ETL pipeline:             *)
(*   - the scientific-name normalizer (genus-adjustments.ts),              *)
(*   - the source parsers (csv-parser.ts),                                 *)
(*   - the variant-aware join (join-logic.ts),                             *)
(*   - the mapping transformer and schema validator (mapping-transform.ts),*)
(*   - the build orchestrator (build-mapping.ts).                          *)
(*                                                                         *)
(* A JavaScript string is a sequence of one-character strings, so that the *)
(* regular expressions, trim, split and includes of the source are         *)
(* computed character by character.  Enumerated keys that the source only  *)
(* compares with literals (column names, error types, policy names) are    *)
(* TLA+ strings.                                                           *)
(***************************************************************************)
EXTENDS Integers, Sequences, FiniteSets, TLC

VARIABLES
    pc,               \* position of the running program
    \* ---- normalizer (applyGenusAdjustments called repeatedly)
    sciName,          \* the name given to the first call
    normOut,          \* the results of the successive calls
    \* ---- parsers
    ebirdText,        \* checklist input text (bom, header, rows)
    ibpText,          \* banding input text
    parseOpts,        \* [filterSpeciesOnly, excludeSubspecies]
    ebirdParsed,      \* CSVParseResult<EBirdRawRecord>
    ibpParsed,        \* CSVParseResult<IBPRawRecord>
    \* ---- joinByScientificNameVariants
    ebirdRecords,     \* argument
    ibpRecords,       \* argument
    variantPolicy,    \* opts.variantPolicy
    ebirdSorted,      \* indexes of ebirdRecords in processing order
    jIdx,             \* loop position in ebirdSorted
    matched,          \* JoinedRecord[]
    matchedFrom,      \* for each matched record, <<checklist index, banding index>>
    unmatchedEBird,   \* indexes of checklist records recorded as unmatched
    consumedIBP,      \* Set<IBPRawRecord>, by identity (index)
    joinResult,       \* the returned JoinResult
    \* ---- joinByScientificName (the exact join)
    joinOpts,         \* JoinOptions: strictMode, validateCommonNames
    exactResult,      \* the returned JoinResult
    \* ---- transformToMappingRecords
    joinedRecords,    \* argument
    options,          \* MappingTransformOptions
    tIdx,             \* loop position in joinedRecords
    mappingRecords,   \* MappingRecord[]
    errors,           \* MappingValidationError[] (type and field)
    seenAlpha4Codes,  \* Set<string>
    counters,         \* successfulTransformations, validationErrors, ...
    transformResult,  \* the returned MappingTransformResult
    \* ---- runBuildMapping
    buildOpts,        \* RunBuildMappingOptions
    buildResult,      \* the returned RunBuildMappingResult, or the error thrown
    disk,             \* the file system: the two input files, directories, files
    history           \* the options and outcome of every finished call

normVars == <<sciName, normOut>>
parseVars == <<ebirdText, ibpText, parseOpts, ebirdParsed, ibpParsed>>
joinVars == <<ebirdRecords, ibpRecords, variantPolicy, ebirdSorted, jIdx, matched,
              matchedFrom, unmatchedEBird, consumedIBP, joinResult>>
exactVars == <<joinOpts, exactResult>>
transformVars == <<joinedRecords, options, tIdx, mappingRecords, errors,
                   seenAlpha4Codes, counters, transformResult>>
buildVars == <<buildOpts, buildResult, disk, history>>
vars == <<pc, normVars, parseVars, joinVars, exactVars, transformVars, buildVars>>

NONE == [none |-> TRUE]

(***************************************************************************)
(* Characters and string primitives                                        *)
(***************************************************************************)
Upper == {"A","B","C","D","E","F","G","H","I","J","K","L","M",
          "N","O","P","Q","R","S","T","U","V","W","X","Y","Z"}
Lower == {"a","b","c","d","e","f","g","h","i","j","k","l","m",
          "n","o","p","q","r","s","t","u","v","w","x","y","z"}
Digit == {"0","1","2","3","4","5","6","7","8","9"}
WhiteSpace == {" ", "\t", "\n", "\r"}

Min(a, b) == IF a <= b THEN a ELSE b

\* String.prototype.includes
Includes(s, sub) ==
    \E i \in 0..(Len(s) - Len(sub)) : SubSeq(s, i + 1, i + Len(sub)) = sub

\* String.prototype.trim
Trim(s) ==
    LET keep == {i \in 1..Len(s) : s[i] \notin WhiteSpace}
    IN  IF keep = {} THEN <<>>
        ELSE LET lo == CHOOSE i \in keep : \A j \in keep : i <= j
                 hi == CHOOSE i \in keep : \A j \in keep : j <= i
             IN  SubSeq(s, lo, hi)

\* s.replace(/\s+/g, ' '): every maximal run of whitespace becomes one space
RECURSIVE CollapseWhiteSpace(_)
CollapseWhiteSpace(s) ==
    IF s = <<>> THEN <<>>
    ELSE IF s[1] \in WhiteSpace
         THEN LET rest == CollapseWhiteSpace(Tail(s))
              IN  IF Len(s) > 1 /\ s[2] \in WhiteSpace THEN rest ELSE <<" ">> \o rest
         ELSE <<s[1]>> \o CollapseWhiteSpace(Tail(s))

\* name.split(' '): the tokens between single spaces (empty tokens included)
RECURSIVE Split(_)
Split(s) ==
    IF \A i \in 1..Len(s) : s[i] # " " THEN <<s>>
    ELSE LET k == CHOOSE i \in 1..Len(s) : s[i] = " " /\ \A j \in 1..(i - 1) : s[j] # " "
         IN  <<SubSeq(s, 1, k - 1)>> \o Split(SubSeq(s, k + 1, Len(s)))

\* tokens.join(' ')
RECURSIVE Join(_)
Join(tokens) ==
    IF tokens = <<>> THEN <<>>
    ELSE IF Len(tokens) = 1 THEN tokens[1]
    ELSE tokens[1] \o <<" ">> \o Join(Tail(tokens))

(***************************************************************************)
(* domain/types.ts                                                         *)
(***************************************************************************)
\* /^[A-Z]{4}$/
isValidAlpha4Code(input) ==
    Len(input) = 4 /\ \A i \in 1..4 : input[i] \in Upper

\* /^[a-z0-9xy]+$/ and 4 <= length <= 8
isValidEBirdCode(input) ==
    /\ Len(input) >= 1
    /\ \A i \in 1..Len(input) : input[i] \in (Lower \cup Digit \cup {"x", "y"})
    /\ Len(input) >= 4
    /\ Len(input) <= 8

\* /^[A-Z][a-z]+ [a-z]+$/
isValidScientificName(input) ==
    \E k \in 1..Len(input) :
        /\ input[k] = " "
        /\ k >= 3
        /\ input[1] \in Upper
        /\ \A i \in 2..(k - 1) : input[i] \in Lower
        /\ Len(input) > k
        /\ \A i \in (k + 1)..Len(input) : input[i] \in Lower

(***************************************************************************)
(* genus-adjustments.data.ts / genus-adjustments.ts                        *)
(***************************************************************************)
W_Astur == <<"A","s","t","u","r">>
W_Accipiter == <<"A","c","c","i","p","i","t","e","r">>
W_Corvus == <<"C","o","r","v","u","s">>
W_cooperii == <<"c","o","o","p","e","r","i","i">>
W_bicolor == <<"b","i","c","o","l","o","r">>
W_chilensis == <<"c","h","i","l","e","n","s","i","s">>
W_gundlachi == <<"g","u","n","d","l","a","c","h","i">>
W_gentilis == <<"g","e","n","t","i","l","i","s">>
W_corax == <<"c","o","r","a","x">>
SP == <<" ">>

\* The table with a first rule whose target is the second rule's source
ChainedRules ==
    << [from |-> W_Astur \o SP \o W_cooperii, to |-> W_Astur \o SP \o W_bicolor],
       [from |-> W_Astur \o SP \o W_bicolor, to |-> W_Accipiter \o SP \o W_bicolor],
       [from |-> W_Astur \o SP \o W_chilensis, to |-> W_Accipiter \o SP \o W_chilensis],
       [from |-> W_Astur \o SP \o W_gundlachi, to |-> W_Accipiter \o SP \o W_gundlachi],
       [from |-> W_Astur \o SP \o W_gentilis, to |-> W_Accipiter \o SP \o W_gentilis] >>

GENUS_ADJUSTMENT_RULES_V1 ==
    << [from |-> W_Astur \o SP \o W_cooperii, to |-> W_Accipiter \o SP \o W_cooperii],
       [from |-> W_Astur \o SP \o W_bicolor, to |-> W_Accipiter \o SP \o W_bicolor],
       [from |-> W_Astur \o SP \o W_chilensis, to |-> W_Accipiter \o SP \o W_chilensis],
       [from |-> W_Astur \o SP \o W_gundlachi, to |-> W_Accipiter \o SP \o W_gundlachi],
       [from |-> W_Astur \o SP \o W_gentilis, to |-> W_Accipiter \o SP \o W_gentilis] >>

ACTIVE_GENUS_ADJUSTMENTS == [version |-> "v1.1.0", rules |-> GENUS_ADJUSTMENT_RULES_V1]

\* new Map(rules.map(r => [r.from, r.to])): for a repeated key the last entry wins
MapHas(rules, key) == \E i \in 1..Len(rules) : rules[i].from = key
MapGet(rules, key) ==
    LET hits == {i \in 1..Len(rules) : rules[i].from = key}
        last == CHOOSE i \in hits : \A j \in hits : j <= i
    IN  rules[last].to

\* GENUS_ADJUSTMENT_MAP.get(scientificName) || scientificName : one lookup
applyGenusAdjustments(scientificName) ==
    LET rules == ACTIVE_GENUS_ADJUSTMENTS.rules
    IN  IF MapHas(rules, scientificName) /\ MapGet(rules, scientificName) # <<>>
        THEN MapGet(rules, scientificName)
        ELSE scientificName

\* The normalizer without the correction table
normalizeWithoutAdjustments(name) == CollapseWhiteSpace(Trim(name))

\* csv-parser.ts normalizeScientificName
normalizeScientificName(name) ==
    applyGenusAdjustments(CollapseWhiteSpace(Trim(name)))

(***************************************************************************)
(* csv-parser.ts                                                           *)
(*                                                                         *)
(* An input text is [bom, header, rows]: the number of leading byte-order  *)
(* marks, the header line's column names and the data lines, each a        *)
(* function from the header's positions to cells.  csvParse (d3-dsv) turns *)
(* it into one object per data line, keyed by the header's column names.   *)
(***************************************************************************)
\* content.replace(/^[BOM]+/, ''): every leading byte-order mark is removed
stripBOM(content) == [content EXCEPT !.bom = 0]

\* The keys of the objects csvParse returns; a byte-order mark left in front
\* of the header is part of the first column's name, which then equals no
\* column name the parsers look up
CsvColumns(content) ==
    {content.header[k] : k \in (IF content.bom > 0 THEN 2 ELSE 1)..Len(content.header)}

csvParse(content) ==
    [i \in 1..Len(content.rows) |->
        [c \in CsvColumns(content) |->
            LET at == {k \in 1..Len(content.header) : content.header[k] = c}
                last == CHOOSE k \in at : \A j \in at : j <= k
            IN  content.rows[i][last]]]

\* String(r[column] || '').trim()
Field(r, column) == IF column \in DOMAIN r THEN Trim(r[column]) ELSE <<>>

S_species == <<"s","p","e","c","i","e","s">>
S_issf == <<"i","s","s","f">>
S_slash == <<"s","l","a","s","h">>
S_hybrid == <<"h","y","b","r","i","d">>

EBirdExpectedColumns ==
    <<"TAXON_ORDER", "CATEGORY", "SPECIES_CODE", "TAXON_CONCEPT_ID", "PRIMARY_COM_NAME",
      "SCI_NAME", "ORDER", "FAMILY", "SPECIES_GROUP", "REPORT_AS">>

ParseStats(total, valid, skipped, errs) ==
    [totalRows |-> total, validRecords |-> valid, skippedRecords |-> skipped,
     errorRecords |-> errs]

EmptyAcc == [records |-> <<>>, errors |-> <<>>, validRecords |-> 0,
             skippedRecords |-> 0, errorRecords |-> 0]

RowError(acc, type, idx, value) ==
    [acc EXCEPT !.errorRecords = @ + 1,
                !.errors = Append(@, [type |-> type, row |-> idx, value |-> value])]

\* A skip that is counted with the errors
RowSkipCountedAsError(acc) == [acc EXCEPT !.errorRecords = @ + 1]

RowSkip(acc) == [acc EXCEPT !.skippedRecords = @ + 1]

\* The body of rows.forEach in parseEBirdCSV, for the row r at 1-based position idx
EBirdRow(acc, r, idx, filterSpeciesOnly) ==
    LET category == Field(r, "CATEGORY")
        speciesCodeRaw == Field(r, "SPECIES_CODE")
        commonNameRaw == Field(r, "PRIMARY_COM_NAME")
        scientificNameRaw == Field(r, "SCI_NAME")
        normalizedScientificName == normalizeScientificName(scientificNameRaw)
    IN  IF speciesCodeRaw = <<>> \/ scientificNameRaw = <<>>
        THEN RowError(acc, "EMPTY_REQUIRED_FIELD", idx,
                      IF speciesCodeRaw # <<>> THEN speciesCodeRaw ELSE scientificNameRaw)
        ELSE IF filterSpeciesOnly /\ category # S_species
        THEN RowSkip(acc)
        ELSE IF /\ ~isValidScientificName(normalizedScientificName)
                /\ ~Includes(scientificNameRaw, <<" ", "x", " ">>)
                /\ ~Includes(scientificNameRaw, <<"/">>)
                /\ ~Includes(scientificNameRaw, <<" ", "s", "p", ".">>)
        THEN RowError(acc, "INVALID_SCIENTIFIC_NAME", idx, scientificNameRaw)
        ELSE IF Includes(scientificNameRaw, <<" ", "s", "p", ".">>)
        THEN RowSkip(acc)
        ELSE IF ~isValidEBirdCode(speciesCodeRaw)
        THEN RowError(acc, "INVALID_EBIRD_CODE", idx, speciesCodeRaw)
        \* createScientificName throws for a name that is not a strict binomial
        ELSE IF ~isValidScientificName(normalizedScientificName)
        THEN RowError(acc, "MALFORMED_ROW", idx, speciesCodeRaw)
        ELSE [acc EXCEPT !.validRecords = @ + 1,
                         !.records = Append(@, [category |-> category,
                                                speciesCode |-> speciesCodeRaw,
                                                scientificName |-> normalizedScientificName,
                                                commonName |-> commonNameRaw])]

RECURSIVE EBirdRows(_, _, _, _)
EBirdRows(acc, rows, idx, filterSpeciesOnly) ==
    IF idx > Len(rows) THEN acc
    ELSE EBirdRows(EBirdRow(acc, rows[idx], idx, filterSpeciesOnly), rows, idx + 1,
                   filterSpeciesOnly)

\* The result returned for missing columns, with the row count as totalRows
MissingColumnsResult(rows) ==
    [success |-> FALSE, records |-> <<>>,
     errors |-> <<[type |-> "MISSING_COLUMNS", row |-> 0, value |-> <<>>]>>,
     stats |-> ParseStats(Len(rows), 0, 0, 0)]

NoDataRowsResult ==
    [success |-> FALSE, records |-> <<>>,
     errors |-> <<[type |-> "MALFORMED_ROW", row |-> 0, value |-> <<>>]>>,
     stats |-> ParseStats(0, 0, 0, 0)]

ParseResult(acc, rows) ==
    [success |-> (Len(acc.errors) = 0), records |-> acc.records, errors |-> acc.errors,
     stats |-> ParseStats(Len(rows), acc.validRecords, acc.skippedRecords,
                          acc.errorRecords)]

parseEBirdCSV(csvContent, filterSpeciesOnly) ==
    LET rows == csvParse(stripBOM(csvContent))
    IN  IF Len(rows) = 0 THEN NoDataRowsResult
        ELSE LET missingColumns ==
                     {k \in 1..Len(EBirdExpectedColumns) :
                          EBirdExpectedColumns[k] \notin DOMAIN rows[1]}
             IN  IF missingColumns # {} THEN MissingColumnsResult(rows)
                 ELSE ParseResult(EBirdRows(EmptyAcc, rows, 1, filterSpeciesOnly), rows)

\* /(gen\.?,?\s*sp\.?\)?)/i .test(s)
GroupLevelPattern(s) ==
    \E i \in 1..Len(s) : \E d \in 0..1 : \E c \in 0..1 : \E w \in 0..Len(s) :
        LET j == i + 3 + d + c + w
        IN  /\ j + 1 <= Len(s)
            /\ s[i] \in {"g", "G"} /\ s[i + 1] \in {"e", "E"} /\ s[i + 2] \in {"n", "N"}
            /\ d = 1 => s[i + 3] = "."
            /\ c = 1 => s[i + 3 + d] = ","
            /\ \A k \in (i + 3 + d + c)..(j - 1) : s[k] \in WhiteSpace
            /\ s[j] \in {"s", "S"} /\ s[j + 1] \in {"p", "P"}

\* The body of rows.forEach in parseIBPCSV
IBPRow(acc, r, idx, excludeSubspecies) ==
    LET spMarker == Field(r, "SP")
        alpha4CodeRaw == Field(r, "SPEC")
        commonNameRaw == Field(r, "COMMONNAME")
        scientificNameRaw == Field(r, "SCINAME")
        spec6CodeRaw == Field(r, "SPEC6")
        normalizedScientificName == normalizeScientificName(scientificNameRaw)
    IN  IF alpha4CodeRaw = <<>> \/ scientificNameRaw = <<>>
        THEN RowError(acc, "EMPTY_REQUIRED_FIELD", idx,
                      IF alpha4CodeRaw # <<>> THEN alpha4CodeRaw ELSE scientificNameRaw)
        ELSE IF excludeSubspecies /\ spMarker = <<"+">>
        THEN RowSkip(acc)
        ELSE IF ~isValidAlpha4Code(alpha4CodeRaw)
        THEN RowError(acc, "INVALID_ALPHA4_CODE", idx, alpha4CodeRaw)
        ELSE IF GroupLevelPattern(scientificNameRaw)
        THEN RowSkip(acc)
        ELSE IF ~isValidScientificName(normalizedScientificName)
        THEN RowError(acc, "INVALID_SCIENTIFIC_NAME", idx, scientificNameRaw)
        ELSE [acc EXCEPT !.validRecords = @ + 1,
                         !.records = Append(@, [alpha4Code |-> alpha4CodeRaw,
                                                scientificName |-> normalizedScientificName,
                                                commonName |-> commonNameRaw,
                                                spec6Code |-> spec6CodeRaw])]

RECURSIVE IBPRows(_, _, _, _)
IBPRows(acc, rows, idx, excludeSubspecies) ==
    IF idx > Len(rows) THEN acc
    ELSE IBPRows(IBPRow(acc, rows[idx], idx, excludeSubspecies), rows, idx + 1,
                 excludeSubspecies)

parseIBPCSV(csvContent, excludeSubspecies) ==
    LET rows == csvParse(stripBOM(csvContent))
    IN  IF Len(rows) = 0 THEN NoDataRowsResult
        ELSE ParseResult(IBPRows(EmptyAcc, rows, 1, excludeSubspecies), rows)

(***************************************************************************)
(* join-logic.ts : joinByScientificName (the exact join)                   *)
(*                                                                         *)
(* A Set or Map of the source is a sequence without repetitions, in        *)
(* insertion order: that is the order in which [...set] and map.keys()     *)
(* list the elements.                                                      *)
(***************************************************************************)
EmptyJoinStats ==
    [totalEBirdRecords |-> 0, totalIBPRecords |-> 0, successfulMatches |-> 0,
     unmatchedEBirdRecords |-> 0, unmatchedIBPRecords |-> 0, duplicateScientificNames |-> 0]

\* set.add(x): x goes last unless it is already a member
SetAdd(set, x) == IF \E k \in 1..Len(set) : set[k] = x THEN set ELSE Append(set, x)

\* One of the two duplicate scans: `names` is the Set of names seen on this
\* side, acc the Set `duplicates`
RECURSIVE ScanDuplicates(_, _, _, _)
ScanDuplicates(records, i, names, acc) ==
    IF i > Len(records) THEN acc
    ELSE LET name == records[i].scientificName
         IN  ScanDuplicates(records, i + 1, names \cup {name},
                            IF name \in names THEN SetAdd(acc, name) ELSE acc)

\* The Set `duplicates` after the eBird scan and the IBP scan
Duplicates(ebird, ibp) == ScanDuplicates(ibp, 1, {}, ScanDuplicates(ebird, 1, {}, <<>>))

\* The keys of the Map built by map.set(record.scientificName, record) over
\* the records: a repeated key keeps its first position
RECURSIVE MapKeys(_, _, _)
MapKeys(records, i, acc) ==
    IF i > Len(records) THEN acc
    ELSE MapKeys(records, i + 1, SetAdd(acc, records[i].scientificName))

\* A lookup that keeps the first record set for a key
MapGetFirst(records, name) ==
    LET hits == {i \in 1..Len(records) : records[i].scientificName = name}
    IN  IF hits = {} THEN NONE
        ELSE records[CHOOSE i \in hits : \A j \in hits : i <= j]

\* map.get(name) after the population loop: the last record set for the key
\* wins, NONE stands for undefined
MapGetLast(records, name) ==
    LET hits == {i \in 1..Len(records) : records[i].scientificName = name}
    IN  IF hits = {} THEN NONE
        ELSE records[CHOOSE i \in hits : \A j \in hits : j <= i]

\* allScientificNames: the eBird keys, then the IBP keys not among them
AllScientificNames(ebird, ibp) ==
    LET ek == MapKeys(ebird, 1, <<>>)
        ik == MapKeys(ibp, 1, <<>>)
    IN  ek \o SelectSeq(ik, LAMBDA n : \A k \in 1..Len(ek) : ek[k] # n)

\* `for (const scientificName of allScientificNames)`, from position k on
RECURSIVE ExactLoop(_, _, _, _, _, _)
ExactLoop(ebird, ibp, opts, names, k, acc) ==
    IF k > Len(names) THEN acc
    ELSE LET ebirdRecord == MapGetLast(ebird, names[k])
             ibpRecord == MapGetLast(ibp, names[k])
             next ==
                 IF ebirdRecord # NONE /\ ibpRecord # NONE
                 THEN IF /\ opts.validateCommonNames
                         /\ ebirdRecord.commonName # ibpRecord.commonName
                         /\ opts.strictMode
                      THEN [acc EXCEPT !.unmatchedEBird = Append(@, ebirdRecord),
                                       !.unmatchedIBP = Append(@, ibpRecord)]
                      ELSE [acc EXCEPT !.matched =
                                Append(@, [alpha4Code |-> ibpRecord.alpha4Code,
                                           ebird6Code |-> ebirdRecord.speciesCode,
                                           scientificName |-> ebirdRecord.scientificName,
                                           commonNameEBird |-> ebirdRecord.commonName,
                                           commonNameIBP |-> ibpRecord.commonName])]
                 ELSE IF ebirdRecord # NONE
                 THEN [acc EXCEPT !.unmatchedEBird = Append(@, ebirdRecord)]
                 ELSE [acc EXCEPT !.unmatchedIBP = Append(@, ibpRecord)]
         IN  ExactLoop(ebird, ibp, opts, names, k + 1, next)

\* The strict-mode test that overlooks the duplicates
StrictAbortNever(opts, duplicates) == FALSE

\* opts.strictMode && duplicates.size > 0
StrictAbort(opts, duplicates) == opts.strictMode /\ Len(duplicates) > 0

\* A success flag that is always true
ExactSuccessAlways(duplicates) == TRUE

\* success: duplicates.size === 0
ExactSuccess(duplicates) == Len(duplicates) = 0

joinByScientificName(ebird, ibp, opts) ==
    LET duplicates == Duplicates(ebird, ibp)
        joined == ExactLoop(ebird, ibp, opts, AllScientificNames(ebird, ibp), 1,
                            [matched |-> <<>>, unmatchedEBird |-> <<>>, unmatchedIBP |-> <<>>])
    IN  IF Len(ebird) = 0 /\ Len(ibp) = 0
        THEN [success |-> TRUE, matched |-> <<>>, unmatchedEBird |-> <<>>,
              unmatchedIBP |-> <<>>, duplicateScientificNames |-> <<>>,
              stats |-> EmptyJoinStats]
        ELSE IF StrictAbort(opts, duplicates)
        THEN [success |-> FALSE, matched |-> <<>>, unmatchedEBird |-> ebird,
              unmatchedIBP |-> ibp, duplicateScientificNames |-> duplicates,
              stats |-> [totalEBirdRecords |-> Len(ebird), totalIBPRecords |-> Len(ibp),
                         successfulMatches |-> 0, unmatchedEBirdRecords |-> Len(ebird),
                         unmatchedIBPRecords |-> Len(ibp),
                         duplicateScientificNames |-> Len(duplicates)]]
        ELSE [success |-> ExactSuccess(duplicates), matched |-> joined.matched,
              unmatchedEBird |-> joined.unmatchedEBird,
              unmatchedIBP |-> joined.unmatchedIBP,
              duplicateScientificNames |-> duplicates,
              stats |-> [totalEBirdRecords |-> Len(ebird), totalIBPRecords |-> Len(ibp),
                         successfulMatches |-> Len(joined.matched),
                         unmatchedEBirdRecords |-> Len(joined.unmatchedEBird),
                         unmatchedIBPRecords |-> Len(joined.unmatchedIBP),
                         duplicateScientificNames |-> Len(duplicates)]]

(***************************************************************************)
(* join-logic.ts : joinByScientificNameVariants                            *)
(*                                                                         *)
(* Records are identified by their position in the argument arrays: the    *)
(* source's Set<IBPRawRecord> holds object identities.                     *)
(***************************************************************************)
\* name.split(' ').slice(0, 2).join(' ')
toBinomial(name) ==
    LET tokens == Split(name)
    IN  Join(SubSeq(tokens, 1, Min(2, Len(tokens))))

\* ibpFull.get(name) || [] : the banding records of that full name, in input order
ibpFull(ibp, name) ==
    SelectSeq([i \in 1..Len(ibp) |-> i], LAMBDA i : ibp[i].scientificName = name)

\* ibpByBinomial.get(bin) || [] : the banding records of that binomial, in input order
ibpByBinomial(ibp, bin) ==
    SelectSeq([i \in 1..Len(ibp) |-> i], LAMBDA i : toBinomial(ibp[i].scientificName) = bin)

rank(r) == IF r.category = S_species THEN 0 ELSE IF r.category = S_issf THEN 1 ELSE 2

\* The checklist records left in input order
Unsorted(ebird) == [i \in 1..Len(ebird) |-> i]

\* A sort by rank that puts equally-ranked records in reverse input order
SortByRankTiesReversed(ebird) ==
    LET idx == [i \in 1..Len(ebird) |-> Len(ebird) + 1 - i]
    IN  SelectSeq(idx, LAMBDA i : rank(ebird[i]) = 0)
        \o SelectSeq(idx, LAMBDA i : rank(ebird[i]) = 1)
        \o SelectSeq(idx, LAMBDA i : rank(ebird[i]) = 2)

\* [...ebirdRecords].sort((a, b) => rank(a) - rank(b)) : Array.prototype.sort is stable
SortByRank(ebird) ==
    LET idx == [i \in 1..Len(ebird) |-> i]
    IN  SelectSeq(idx, LAMBDA i : rank(ebird[i]) = 0)
        \o SelectSeq(idx, LAMBDA i : rank(ebird[i]) = 1)
        \o SelectSeq(idx, LAMBDA i : rank(ebird[i]) = 2)

\* The policy filter left out
PolicyAdmitsAll(policy, e) == TRUE

\* The two `continue` tests at the head of the loop body
PolicyAdmits(policy, e) ==
    /\ ~(policy = "species" /\ e.category # S_species)
    /\ ~(policy = "species+subspecies" /\ e.category \notin {S_species, S_issf})

\* find without the consumed test
FindFirst(list, consumed) == IF list = <<>> THEN 0 ELSE list[1]

\* list.find((r) => !consumedIBP.has(r)) : 0 stands for undefined
FindUnconsumed(list, consumed) ==
    LET free == {k \in 1..Len(list) : list[k] \notin consumed}
    IN  IF free = {} THEN 0
        ELSE list[CHOOSE k \in free : \A j \in free : k <= j]

\* The binomial bucket tried before the full name
ChosenBinomialFirst(ibp, consumed, e) ==
    LET bucket == FindUnconsumed(ibpByBinomial(ibp, toBinomial(e.scientificName)), consumed)
    IN  IF bucket # 0 THEN bucket
        ELSE FindUnconsumed(ibpFull(ibp, e.scientificName), consumed)

\* The banding record chosen for checklist record e (0: none)
Chosen(ibp, consumed, e) ==
    LET exact == FindUnconsumed(ibpFull(ibp, e.scientificName), consumed)
    IN  IF exact # 0 THEN exact
        ELSE FindUnconsumed(ibpByBinomial(ibp, toBinomial(e.scientificName)), consumed)

JoinedRecord(e, r) ==
    [alpha4Code |-> r.alpha4Code, ebird6Code |-> e.speciesCode,
     scientificName |-> e.scientificName, commonNameEBird |-> e.commonName,
     commonNameIBP |-> r.commonName]

\* The return value with the exact join's success flag (no repeated name)
JoinReturnValueDuplicatesFail(ebird, ibp, m, unmatchedE, consumed) ==
    LET unmatchedIBP == SelectSeq([i \in 1..Len(ibp) |-> i], LAMBDA i : i \notin consumed)
        repeated == {n \in {ebird[i].scientificName : i \in 1..Len(ebird)} :
                        Cardinality({i \in 1..Len(ebird) : ebird[i].scientificName = n}) > 1}
    IN  [success |-> (repeated = {}),
         matched |-> m,
         unmatchedEBird |-> unmatchedE,
         unmatchedIBP |-> unmatchedIBP,
         duplicateScientificNames |-> <<>>,
         stats |-> [totalEBirdRecords |-> Len(ebird),
                    totalIBPRecords |-> Len(ibp),
                    successfulMatches |-> Len(m),
                    unmatchedEBirdRecords |-> Len(unmatchedE),
                    unmatchedIBPRecords |-> Len(unmatchedIBP),
                    duplicateScientificNames |-> 0]]

\* The return value with every banding record listed as unmatched
JoinReturnValueAllIBPUnmatched(ebird, ibp, m, unmatchedE, consumed) ==
    LET unmatchedIBP == [i \in 1..Len(ibp) |-> i]
    IN  [success |-> TRUE,
         matched |-> m,
         unmatchedEBird |-> unmatchedE,
         unmatchedIBP |-> unmatchedIBP,
         duplicateScientificNames |-> <<>>,
         stats |-> [totalEBirdRecords |-> Len(ebird),
                    totalIBPRecords |-> Len(ibp),
                    successfulMatches |-> Len(m),
                    unmatchedEBirdRecords |-> Len(unmatchedE),
                    unmatchedIBPRecords |-> Len(unmatchedIBP),
                    duplicateScientificNames |-> 0]]

\* The value returned by joinByScientificNameVariants
JoinReturnValue(ebird, ibp, m, unmatchedE, consumed) ==
    LET unmatchedIBP == SelectSeq([i \in 1..Len(ibp) |-> i], LAMBDA i : i \notin consumed)
    IN  [success |-> TRUE,
         matched |-> m,
         unmatchedEBird |-> unmatchedE,
         unmatchedIBP |-> unmatchedIBP,
         duplicateScientificNames |-> <<>>,
         stats |-> [totalEBirdRecords |-> Len(ebird),
                    totalIBPRecords |-> Len(ibp),
                    successfulMatches |-> Len(m),
                    unmatchedEBirdRecords |-> Len(unmatchedE),
                    unmatchedIBPRecords |-> Len(unmatchedIBP),
                    duplicateScientificNames |-> 0]]

\* Entry: build the indexes, sort the checklist records, start the loop
JoinBegin ==
    /\ pc = "join_call"
    /\ ebirdSorted' = SortByRank(ebirdRecords)
    /\ jIdx' = 1
    /\ matched' = <<>>
    /\ matchedFrom' = <<>>
    /\ unmatchedEBird' = <<>>
    /\ consumedIBP' = {}
    /\ pc' = "join_loop"
    /\ UNCHANGED <<ebirdRecords, ibpRecords, variantPolicy, joinResult>>
    /\ UNCHANGED exactVars
    /\ UNCHANGED <<normVars, parseVars, transformVars, buildVars>>

\* One iteration of `for (const e of ebirdSorted)`
JoinStep ==
    /\ pc = "join_loop"
    /\ jIdx <= Len(ebirdSorted)
    /\ LET ei == ebirdSorted[jIdx]
           e == ebirdRecords[ei]
           chosen == Chosen(ibpRecords, consumedIBP, e)
       IN  IF ~PolicyAdmits(variantPolicy, e)
           THEN UNCHANGED <<matched, matchedFrom, unmatchedEBird, consumedIBP>>
           ELSE IF chosen # 0
           THEN /\ consumedIBP' = consumedIBP \cup {chosen}
                /\ matched' = Append(matched, JoinedRecord(e, ibpRecords[chosen]))
                /\ matchedFrom' = Append(matchedFrom, <<ei, chosen>>)
                /\ UNCHANGED unmatchedEBird
           ELSE /\ unmatchedEBird' = Append(unmatchedEBird, ei)
                /\ UNCHANGED <<matched, matchedFrom, consumedIBP>>
    /\ jIdx' = jIdx + 1
    /\ UNCHANGED <<pc, ebirdRecords, ibpRecords, variantPolicy, ebirdSorted, joinResult>>
    /\ UNCHANGED exactVars
    /\ UNCHANGED <<normVars, parseVars, transformVars, buildVars>>

\* After the loop: the remaining banding records and the result
JoinReturn ==
    /\ pc = "join_loop"
    /\ jIdx > Len(ebirdSorted)
    /\ joinResult' = JoinReturnValue(ebirdRecords, ibpRecords, matched, unmatchedEBird,
                                     consumedIBP)
    /\ pc' = "joined"
    /\ UNCHANGED <<ebirdRecords, ibpRecords, variantPolicy, ebirdSorted, jIdx, matched,
                   matchedFrom, unmatchedEBird, consumedIBP>>
    /\ UNCHANGED exactVars
    /\ UNCHANGED <<normVars, parseVars, transformVars, buildVars>>

(***************************************************************************)
(* mapping-transform.ts                                                    *)
(***************************************************************************)
\* isNaN(Date.parse(s)) for the ISO date-only form YYYY-MM-DD; any other
\* string of the inputs considered is not a date
DateParseIsNaN(s) ==
    ~ /\ Len(s) = 10
      /\ \A i \in {1, 2, 3, 4, 6, 7, 9, 10} : s[i] \in Digit
      /\ s[5] = "-" /\ s[8] = "-"
      /\ <<s[6], s[7]>> \in {<<"0", d>> : d \in Digit \ {"0"}} \cup {<<"1", d>> : d \in {"0", "1", "2"}}
      /\ <<s[9], s[10]>> \in ({<<t, d>> : t \in {"0", "1", "2"}, d \in Digit}
                               \cup {<<"3", "0">>, <<"3", "1">>}) \ {<<"0", "0">>}

RequiredFields ==
    <<"alpha4", "ebird6", "common_name", "scientific_name", "source", "source_version",
      "updated_at">>

SchemaError(type, fld) == [type |-> type, field |-> fld]

\* The schema validation without its format checks
validateRequiredFieldsOnly(mapping) ==
    SelectSeq([k \in 1..Len(RequiredFields) |->
                   SchemaError("MISSING_REQUIRED_FIELD", RequiredFields[k])],
              LAMBDA err : mapping[err.field] = <<>>)

\* The errors validateMappingSchema collects, in order
validateMappingSchema(mapping) ==
    SelectSeq([k \in 1..Len(RequiredFields) |->
                   SchemaError("MISSING_REQUIRED_FIELD", RequiredFields[k])],
              LAMBDA err : mapping[err.field] = <<>>)
    \o (IF ~isValidAlpha4Code(mapping.alpha4)
        THEN <<SchemaError("INVALID_FIELD_FORMAT", "alpha4")>> ELSE <<>>)
    \o (IF ~isValidEBirdCode(mapping.ebird6)
        THEN <<SchemaError("INVALID_FIELD_FORMAT", "ebird6")>> ELSE <<>>)
    \o (IF ~isValidScientificName(mapping.scientific_name)
        THEN <<SchemaError("INVALID_FIELD_FORMAT", "scientific_name")>> ELSE <<>>)
    \o (IF DateParseIsNaN(mapping.updated_at)
        THEN <<SchemaError("INVALID_DATE_FORMAT", "updated_at")>> ELSE <<>>)

S_unknown == <<"u","n","k","n","o","w","n">>

\* The options validation without its sourceVersion test
OptionsErrorsNoVersion(opts) ==
    (IF opts.source = <<>> \/ Trim(opts.source) = <<>>
     THEN <<SchemaError("INVALID_SOURCE_METADATA", "source")>> ELSE <<>>)
    \o (IF opts.updatedAt = <<>> \/ DateParseIsNaN(opts.updatedAt)
        THEN <<SchemaError("INVALID_SOURCE_METADATA", "updatedAt")>> ELSE <<>>)

\* The INVALID_SOURCE_METADATA errors of the options
OptionsErrors(opts) ==
    (IF opts.source = <<>> \/ Trim(opts.source) = <<>>
     THEN <<SchemaError("INVALID_SOURCE_METADATA", "source")>> ELSE <<>>)
    \o (IF opts.sourceVersion = <<>> \/ Trim(opts.sourceVersion) = <<>>
        THEN <<SchemaError("INVALID_SOURCE_METADATA", "sourceVersion")>> ELSE <<>>)
    \o (IF opts.updatedAt = <<>> \/ DateParseIsNaN(opts.updatedAt)
        THEN <<SchemaError("INVALID_SOURCE_METADATA", "updatedAt")>> ELSE <<>>)

ZeroCounters ==
    [successfulTransformations |-> 0, validationErrors |-> 0, nameConflicts |-> 0,
     duplicateAlpha4Codes |-> 0]

\* The statistics with the duplicate-key drops left uncounted
TransformStatsWithoutDuplicates(total, c) ==
    [totalInputRecords |-> total,
     successfulTransformations |-> c.successfulTransformations,
     validationErrors |-> c.validationErrors,
     nameConflicts |-> c.nameConflicts,
     duplicateAlpha4Codes |-> 0]

TransformStats(total, c) ==
    [totalInputRecords |-> total,
     successfulTransformations |-> c.successfulTransformations,
     validationErrors |-> c.validationErrors,
     nameConflicts |-> c.nameConflicts,
     duplicateAlpha4Codes |-> c.duplicateAlpha4Codes]

TransformMetadata(src, version, count) ==
    [sourceInfo |-> [source |-> src, version |-> version], recordCount |-> count]

\* The result returned when the options are invalid
InvalidOptionsResult(joined, opts) ==
    LET optionsErrors == OptionsErrors(opts)
    IN  [success |-> FALSE, mappingRecords |-> <<>>, errors |-> optionsErrors,
         stats |-> TransformStats(Len(joined),
                                  [ZeroCounters EXCEPT !.validationErrors = Len(optionsErrors)]),
         metadata |-> TransformMetadata(
                          IF opts.source = <<>> THEN S_unknown ELSE opts.source,
                          IF opts.sourceVersion = <<>> THEN S_unknown ELSE opts.sourceVersion,
                          0)]

\* The result returned for an empty input
EmptyInputResult(opts) ==
    [success |-> TRUE, mappingRecords |-> <<>>, errors |-> <<>>,
     stats |-> TransformStats(0, ZeroCounters),
     metadata |-> TransformMetadata(opts.source, opts.sourceVersion, 0)]

\* The final result with a success flag that overlooks duplicate-key drops
LoopResultIgnoringDuplicates(joined, opts, records, errs, c) ==
    [success |-> (c.validationErrors = 0), mappingRecords |-> records, errors |-> errs,
     stats |-> TransformStats(Len(joined), c),
     metadata |-> TransformMetadata(opts.source, opts.sourceVersion, Len(records))]

\* The result returned after the loop
LoopResult(joined, opts, records, errs, c) ==
    [success |-> (Len(errs) = 0), mappingRecords |-> records, errors |-> errs,
     stats |-> TransformStats(Len(joined), c),
     metadata |-> TransformMetadata(opts.source, opts.sourceVersion, Len(records))]

\* The duplicate guard left out
NoDuplicateCheck(seen, alpha4Str) == FALSE

\* seenAlpha4Codes.has(alpha4Str)
IsDuplicateAlpha4(seen, alpha4Str) == alpha4Str \in seen

\* The name resolution with the preference ignored
ResolveCommonNameAlwaysEBird(joinedRecord, opts) == joinedRecord.commonNameEBird

\* Resolve common name conflicts
ResolveCommonName(joinedRecord, opts) ==
    IF joinedRecord.commonNameEBird # joinedRecord.commonNameIBP
    THEN IF opts.preferredCommonNameSource = "ibp"
         THEN joinedRecord.commonNameIBP
         ELSE joinedRecord.commonNameEBird
    ELSE joinedRecord.commonNameEBird

\* Create mapping record
MappingRecord(joinedRecord, opts) ==
    [alpha4 |-> joinedRecord.alpha4Code,
     ebird6 |-> joinedRecord.ebird6Code,
     common_name |-> ResolveCommonName(joinedRecord, opts),
     scientific_name |-> joinedRecord.scientificName,
     source |-> opts.source,
     source_version |-> opts.sourceVersion,
     updated_at |-> opts.updatedAt]

\* Entry: validate the options, handle the empty input, start the loop
TransformBegin ==
    /\ pc = "transform_call"
    /\ mappingRecords' = <<>>
    /\ errors' = <<>>
    /\ seenAlpha4Codes' = {}
    /\ counters' = ZeroCounters
    /\ tIdx' = 1
    /\ IF Len(OptionsErrors(options)) > 0
       THEN /\ transformResult' = InvalidOptionsResult(joinedRecords, options)
            /\ pc' = "transformed"
       ELSE IF Len(joinedRecords) = 0
       THEN /\ transformResult' = EmptyInputResult(options)
            /\ pc' = "transformed"
       ELSE /\ pc' = "transform_loop"
            /\ UNCHANGED transformResult
    /\ UNCHANGED <<joinedRecords, options>>
    /\ UNCHANGED exactVars
    /\ UNCHANGED <<normVars, parseVars, joinVars, buildVars>>

\* One iteration of `for (const joinedRecord of joinedRecords)`
TransformStep ==
    /\ pc = "transform_loop"
    /\ tIdx <= Len(joinedRecords)
    /\ LET joinedRecord == joinedRecords[tIdx]
           alpha4Str == joinedRecord.alpha4Code
           mappingRecord == MappingRecord(joinedRecord, options)
           validation == validateMappingSchema(mappingRecord)
           conflict == IF joinedRecord.commonNameEBird # joinedRecord.commonNameIBP
                       THEN 1 ELSE 0
       IN  IF IsDuplicateAlpha4(seenAlpha4Codes, alpha4Str)
           THEN /\ errors' = Append(errors, SchemaError("DUPLICATE_ALPHA4_CODE", "alpha4Code"))
                /\ counters' = [counters EXCEPT !.duplicateAlpha4Codes = @ + 1]
                /\ UNCHANGED <<seenAlpha4Codes, mappingRecords>>
           ELSE /\ seenAlpha4Codes' = seenAlpha4Codes \cup {alpha4Str}
                /\ IF Len(validation) > 0
                   THEN /\ errors' = errors \o validation
                        /\ counters' = [counters EXCEPT !.nameConflicts = @ + conflict,
                                                        !.validationErrors = @ + 1]
                        /\ UNCHANGED mappingRecords
                   ELSE /\ mappingRecords' = Append(mappingRecords, mappingRecord)
                        /\ counters' = [counters EXCEPT !.nameConflicts = @ + conflict,
                                                        !.successfulTransformations = @ + 1]
                        /\ UNCHANGED errors
    /\ tIdx' = tIdx + 1
    /\ UNCHANGED <<pc, joinedRecords, options, transformResult>>
    /\ UNCHANGED exactVars
    /\ UNCHANGED <<normVars, parseVars, joinVars, buildVars>>

\* After the loop: statistics, metadata and the result
TransformReturn ==
    /\ pc = "transform_loop"
    /\ tIdx > Len(joinedRecords)
    /\ transformResult' = LoopResult(joinedRecords, options, mappingRecords, errors, counters)
    /\ pc' = "transformed"
    /\ UNCHANGED <<joinedRecords, options, tIdx, mappingRecords, errors, seenAlpha4Codes,
                   counters>>
    /\ UNCHANGED exactVars
    /\ UNCHANGED <<normVars, parseVars, joinVars, buildVars>>

(***************************************************************************)
(* Callers of the normalizer and of the parsers                            *)
(***************************************************************************)
MaxNormCalls == 2

\* applyGenusAdjustments called on sciName, then on its own last result
ApplyNormalizer ==
    /\ pc = "norm"
    /\ Len(normOut) < MaxNormCalls
    /\ normOut' = Append(normOut,
                         applyGenusAdjustments(IF normOut = <<>> THEN sciName
                                               ELSE normOut[Len(normOut)]))
    /\ UNCHANGED exactVars
    /\ UNCHANGED <<pc, sciName, parseVars, joinVars, transformVars, buildVars>>

\* parseEBirdCSV(csvContent, {filterSpeciesOnly})
ParseEBird ==
    /\ pc = "parse_call"
    /\ parseOpts.source = "ebird"
    /\ ebirdParsed' = parseEBirdCSV(ebirdText, parseOpts.filterSpeciesOnly)
    /\ pc' = "parsed"
    /\ UNCHANGED <<ebirdText, ibpText, parseOpts, ibpParsed>>
    /\ UNCHANGED exactVars
    /\ UNCHANGED <<normVars, joinVars, transformVars, buildVars>>

\* parseIBPCSV(csvContent, {excludeSubspecies})
ParseIBP ==
    /\ pc = "parse_call"
    /\ parseOpts.source = "ibp"
    /\ ibpParsed' = parseIBPCSV(ibpText, parseOpts.excludeSubspecies)
    /\ pc' = "parsed"
    /\ UNCHANGED <<ebirdText, ibpText, parseOpts, ebirdParsed>>
    /\ UNCHANGED exactVars
    /\ UNCHANGED <<normVars, joinVars, transformVars, buildVars>>

\* joinByScientificName(ebirdRecords, ibpRecords, options)
ExactJoin ==
    /\ pc = "exact_call"
    /\ exactResult' = joinByScientificName(ebirdRecords, ibpRecords, joinOpts)
    /\ pc' = "exact_joined"
    /\ UNCHANGED joinOpts
    /\ UNCHANGED <<normVars, parseVars, joinVars, transformVars, buildVars>>

(***************************************************************************)
(* build-mapping.ts : runBuildMapping                                      *)
(***************************************************************************)
S_etl_build == <<"e","t","l","-","b","u","i","l","d">>
S_data_mapping == <<"d","a","t","a","/","m","a","p","p","i","n","g">>
S_hotfix == <<"-","h","o","t","f","i","x",".">>

\* A version test that accepts every string
CalVerAcceptsAll(s) == TRUE

\* CALVER_PATTERN.test(s): /^(\d{4})\.\d{2}(?:\.\d{2})?(?:-hotfix\.\d+)?$/
CALVER_PATTERN(s) ==
    /\ Len(s) >= 7
    /\ \A i \in {1, 2, 3, 4, 6, 7} : s[i] \in Digit
    /\ s[5] = "."
    /\ \E day \in {0, 3} :
           /\ Len(s) >= 7 + day
           /\ day = 3 => (s[8] = "." /\ s[9] \in Digit /\ s[10] \in Digit)
           /\ \/ Len(s) = 7 + day
              \/ /\ Len(s) > 7 + day + Len(S_hotfix)
                 /\ SubSeq(s, 8 + day, 7 + day + Len(S_hotfix)) = S_hotfix
                 /\ \A i \in (8 + day + Len(S_hotfix))..Len(s) : s[i] \in Digit

\* options.outputDir || 'data/mapping'
OutDir(opts) == IF opts.outputDir = "absent" THEN S_data_mapping ELSE opts.outputDir

\* An output path that does not depend on the version
OutputPathUnversioned(opts) ==
    [dir |-> OutDir(opts), file |-> <<"m","a","p",".","j","s","o","n">>]

\* path.join(outDir, `map-${options.mapVersion}.json`)
OutputPath(opts) ==
    [dir |-> OutDir(opts),
     file |-> <<"m","a","p","-">> \o opts.mapVersion \o <<".","j","s","o","n">>]

\* fs.writeFileSync(path, content): the file is created or replaced
WriteFile(files, path, content) ==
    [p \in DOMAIN files \cup {path} |-> IF p = path THEN content ELSE files[p]]

\* The call ends by throwing
BuildThrows(message) ==
    /\ buildResult' = [thrown |-> message]
    /\ history' = Append(history, [opts |-> buildOpts, outcome |-> [thrown |-> message]])
    /\ pc' = "build_failed"
    /\ UNCHANGED <<buildOpts, disk>>

\* Check the version and the input paths, read and parse both inputs, then
\* call the variant-aware join with policy 'all'
BuildParse ==
    /\ pc = "build_call"
    /\ IF ~CALVER_PATTERN(buildOpts.mapVersion)
       THEN /\ BuildThrows("Invalid mapVersion CalVer format")
            /\ UNCHANGED <<parseVars, ebirdRecords, ibpRecords, variantPolicy>>
       ELSE IF disk.ebirdCsv = NONE
       THEN /\ BuildThrows("eBird CSV not found")
            /\ UNCHANGED <<parseVars, ebirdRecords, ibpRecords, variantPolicy>>
       ELSE IF disk.ibpCsv = NONE
       THEN /\ BuildThrows("IBP-AOS CSV not found")
            /\ UNCHANGED <<parseVars, ebirdRecords, ibpRecords, variantPolicy>>
       ELSE /\ ebirdText' = disk.ebirdCsv
            /\ ibpText' = disk.ibpCsv
            /\ ebirdParsed' = parseEBirdCSV(disk.ebirdCsv, FALSE)
            /\ ibpParsed' = parseIBPCSV(disk.ibpCsv, FALSE)
            /\ ebirdRecords' = parseEBirdCSV(disk.ebirdCsv, FALSE).records
            /\ ibpRecords' = parseIBPCSV(disk.ibpCsv, FALSE).records
            /\ variantPolicy' = "all"
            /\ pc' = "join_call"
            /\ UNCHANGED <<parseOpts, buildVars>>
    /\ UNCHANGED <<ebirdSorted, jIdx, matched, matchedFrom, unmatchedEBird, consumedIBP,
                   joinResult>>
    /\ UNCHANGED exactVars
    /\ UNCHANGED <<normVars, transformVars>>

\* transformToMappingRecords(joinResult.matched, {source: 'etl-build', ...})
BuildTransform ==
    /\ pc = "joined"
    /\ joinedRecords' = joinResult.matched
    /\ options' = [source |-> S_etl_build,
                   sourceVersion |-> buildOpts.mapVersion,
                   updatedAt |-> buildOpts.updatedAt,
                   preferredCommonNameSource |->
                       IF buildOpts.preferredCommonNameSource = "absent" THEN "ebird"
                       ELSE buildOpts.preferredCommonNameSource]
    /\ pc' = "transform_call"
    /\ UNCHANGED <<tIdx, mappingRecords, errors, seenAlpha4Codes, counters, transformResult>>
    /\ UNCHANGED exactVars
    /\ UNCHANGED <<normVars, parseVars, joinVars, buildVars>>

\* Throw when the transform failed with no records; else create the output
\* directory, write the records as a JSON array and return.  The content of
\* the file is the array of records that JSON.stringify serializes.
BuildFinish ==
    /\ pc = "transformed"
    /\ IF ~transformResult.success /\ Len(transformResult.mappingRecords) = 0
       THEN BuildThrows("Transformation failed with no mapping records")
       ELSE LET result == [outputPath |-> OutputPath(buildOpts),
                           recordCount |-> Len(transformResult.mappingRecords),
                           mapVersion |-> buildOpts.mapVersion,
                           written |-> transformResult.mappingRecords]
            IN  /\ disk' = [disk EXCEPT
                               !.dirs = @ \cup {OutDir(buildOpts)},
                               !.files = WriteFile(@, OutputPath(buildOpts),
                                                   transformResult.mappingRecords)]
                /\ buildResult' = result
                /\ history' = Append(history, [opts |-> buildOpts, outcome |-> result])
                /\ pc' = "build_done"
                /\ UNCHANGED buildOpts
    /\ UNCHANGED exactVars
    /\ UNCHANGED <<normVars, parseVars, joinVars, transformVars>>

(***************************************************************************)
(* Inputs                                                                  *)
(***************************************************************************)
MaxBuilds == 2
MaxRows == 2
MaxEBird == 3
MaxIBP == 2
MaxJoined == 3

SeqsUpTo(S, n) == UNION {[1..k -> S] : k \in 0..n}

Range(f) == {f[i] : i \in DOMAIN f}

\* Scientific names
N_LaGl == <<"L","a"," ","g","l">>
N_LaGlKu == <<"L","a"," ","g","l"," ","k","u">>
N_LaGlXHy == <<"L","a"," ","g","l"," ","x"," ","h","y">>
N_LaGlSlHy == <<"L","a"," ","g","l","/","h","y">>
N_LaHy == <<"L","a"," ","h","y">>
N_LaSp == <<"L","a"," ","s","p",".">>
N_lower == <<"l","a"," ","g","l">>
N_spaced == <<"L","a"," "," "," ","g","l">>

\* Codes, common names, timestamps, versions
A_AMCR == <<"A","M","C","R">>
A_NOCA == <<"N","O","C","A">>
A_MALL == <<"M","A","L","L">>
A_bad == <<"a","m","c","r">>
E_amecro == <<"a","m","e","c","r","o">>
E_norcar == <<"n","o","r","c","a","r">>
E_mallar == <<"m","a","l","l","a","r">>
E_bad == <<"A","B">>
CN_Crow == <<"C","r","o","w">>
CN_Gull == <<"G","u","l","l">>
D_iso == <<"2","0","2","4","-","0","9","-","0","8">>
D_bad == <<"n","o","t","-","a","-","d","a","t","e">>
V_2024_09 == <<"2","0","2","4",".","0","9">>
V_hotfix == <<"2","0","2","4",".","1","0",".","0","5","-","h","o","t","f","i","x",".","2">>
V_bad == <<"2","0","2","4",".","9">>
S_xlsx == <<"X","L","S","X">>
S_blank == <<" ", " ">>
S_out == <<"o","u","t">>

NormInputs ==
    LET genera == {W_Astur, W_Accipiter, W_Corvus, <<"L", "a">>}
        species == {W_cooperii, W_bicolor, W_chilensis, W_gundlachi, W_gentilis, W_corax}
    IN  {g \o SP \o sp : g \in genera, sp \in species}
        \cup {g \o SP \o sp \o SP \o W_corax : g \in genera, sp \in species}
        \cup {<<>>, W_Astur}

\* Checklist rows, by column
EBirdRowPool ==
    { [CATEGORY |-> S_species, SPECIES_CODE |-> E_amecro, PRIMARY_COM_NAME |-> CN_Crow,
       SCI_NAME |-> N_LaGl],
      [CATEGORY |-> S_species, SPECIES_CODE |-> E_amecro, PRIMARY_COM_NAME |-> CN_Gull,
       SCI_NAME |-> N_LaHy],
      [CATEGORY |-> S_issf, SPECIES_CODE |-> E_norcar, PRIMARY_COM_NAME |-> CN_Gull,
       SCI_NAME |-> N_LaGlKu],
      [CATEGORY |-> S_hybrid, SPECIES_CODE |-> E_mallar, PRIMARY_COM_NAME |-> CN_Gull,
       SCI_NAME |-> N_LaGlXHy],
      [CATEGORY |-> S_species, SPECIES_CODE |-> E_norcar, PRIMARY_COM_NAME |-> CN_Gull,
       SCI_NAME |-> N_LaSp],
      [CATEGORY |-> S_species, SPECIES_CODE |-> <<>>, PRIMARY_COM_NAME |-> CN_Crow,
       SCI_NAME |-> N_LaGl],
      [CATEGORY |-> S_issf, SPECIES_CODE |-> E_bad, PRIMARY_COM_NAME |-> CN_Crow,
       SCI_NAME |-> N_spaced],
      [CATEGORY |-> S_issf, SPECIES_CODE |-> <<>>, PRIMARY_COM_NAME |-> CN_Gull,
       SCI_NAME |-> N_LaGlKu],
      [CATEGORY |-> S_species, SPECIES_CODE |-> E_bad, PRIMARY_COM_NAME |-> CN_Crow,
       SCI_NAME |-> N_lower],
      [CATEGORY |-> S_slash, SPECIES_CODE |-> E_norcar, PRIMARY_COM_NAME |-> CN_Gull,
       SCI_NAME |-> N_LaGlSlHy] }
    \cup { [CATEGORY |-> S_species, SPECIES_CODE |-> E_mallar, PRIMARY_COM_NAME |-> CN_Crow,
            SCI_NAME |-> rule.from] : rule \in Range(ACTIVE_GENUS_ADJUSTMENTS.rules) }

\* Banding rows, by column
IBPRowPool ==
    { [SP |-> <<>>, SPEC |-> A_AMCR, COMMONNAME |-> CN_Crow, SCINAME |-> N_LaGl,
       SPEC6 |-> <<>>],
      [SP |-> <<>>, SPEC |-> A_NOCA, COMMONNAME |-> CN_Gull, SCINAME |-> N_LaHy,
       SPEC6 |-> <<>>],
      [SP |-> <<"+">>, SPEC |-> A_MALL, COMMONNAME |-> CN_Gull, SCINAME |-> N_LaGlKu,
       SPEC6 |-> <<>>],
      [SP |-> <<>>, SPEC |-> A_bad, COMMONNAME |-> CN_Gull, SCINAME |-> N_LaGl,
       SPEC6 |-> <<>>],
      [SP |-> <<"+">>, SPEC |-> <<>>, COMMONNAME |-> CN_Gull, SCINAME |-> N_LaGl,
       SPEC6 |-> <<>>],
      [SP |-> <<>>, SPEC |-> A_MALL, COMMONNAME |-> CN_Gull, SCINAME |-> <<"L","a"," ","(","g","e","n","."," ","s","p",".",")">>,
       SPEC6 |-> <<>>],
      [SP |-> <<>>, SPEC |-> A_MALL, COMMONNAME |-> CN_Crow,
       SCINAME |-> W_Accipiter \o SP \o W_cooperii, SPEC6 |-> <<>>],
      [SP |-> <<>>, SPEC |-> A_MALL, COMMONNAME |-> CN_Gull, SCINAME |-> N_LaSp,
       SPEC6 |-> <<>>],
      [SP |-> <<>>, SPEC |-> A_bad, COMMONNAME |-> CN_Gull, SCINAME |-> N_lower,
       SPEC6 |-> <<>>],
      [SP |-> <<>>, SPEC |-> A_MALL, COMMONNAME |-> CN_Gull, SCINAME |-> N_LaGlXHy,
       SPEC6 |-> <<>>] }
    \cup { [SP |-> <<>>, SPEC |-> A_MALL, COMMONNAME |-> CN_Crow, SCINAME |-> rule.from,
            SPEC6 |-> <<>>] : rule \in Range(ACTIVE_GENUS_ADJUSTMENTS.rules) }

IBPColumns == <<"SP", "SPEC", "COMMONNAME", "SCINAME", "SPEC6">>

\* The input text with the given byte-order marks, header and rows
MkText(bom, header, rows) ==
    [bom |-> bom,
     header |-> header,
     rows |-> [i \in 1..Len(rows) |->
                  [k \in 1..Len(header) |->
                      IF header[k] \in DOMAIN rows[i] THEN rows[i][header[k]] ELSE <<>>]]]

EmptyText == MkText(0, <<>>, <<>>)

EBirdHeaders ==
    { [bom |-> 0, header |-> EBirdExpectedColumns],
      [bom |-> 1, header |-> EBirdExpectedColumns],
      [bom |-> 0, header |-> <<"TAXON_ORDER", "CATEGORY", "SPECIES_CODE">>] }

IBPHeaders ==
    { [bom |-> 0, header |-> IBPColumns],
      [bom |-> 1, header |-> IBPColumns],
      [bom |-> 0, header |-> <<"SP", "SPEC", "COMMONNAME">>] }

\* Parsed checklist records given to the join directly
EBirdPool ==
    { [category |-> S_species, speciesCode |-> E_amecro, scientificName |-> N_LaGl,
       commonName |-> CN_Crow],
      [category |-> S_issf, speciesCode |-> E_norcar, scientificName |-> N_LaGlKu,
       commonName |-> CN_Gull],
      [category |-> S_issf, speciesCode |-> E_mallar, scientificName |-> N_LaGl,
       commonName |-> CN_Gull],
      [category |-> S_hybrid, speciesCode |-> E_amecro, scientificName |-> N_LaGlXHy,
       commonName |-> CN_Gull],
      [category |-> S_species, speciesCode |-> E_norcar, scientificName |-> N_LaHy,
       commonName |-> CN_Gull] }

\* Parsed banding records given to the join directly
IBPPool ==
    { [alpha4Code |-> A_AMCR, scientificName |-> N_LaGl, commonName |-> CN_Crow,
       spec6Code |-> <<>>],
      [alpha4Code |-> A_NOCA, scientificName |-> N_LaGlKu, commonName |-> CN_Gull,
       spec6Code |-> <<>>],
      [alpha4Code |-> A_MALL, scientificName |-> N_LaHy, commonName |-> CN_Gull,
       spec6Code |-> <<>>] }

\* Joined pairs given to the transform directly
JoinedPool ==
    { [alpha4Code |-> A_AMCR, ebird6Code |-> E_amecro, scientificName |-> N_LaGl,
       commonNameEBird |-> CN_Crow, commonNameIBP |-> CN_Crow],
      [alpha4Code |-> A_AMCR, ebird6Code |-> E_norcar, scientificName |-> N_LaHy,
       commonNameEBird |-> CN_Crow, commonNameIBP |-> CN_Gull],
      [alpha4Code |-> A_NOCA, ebird6Code |-> E_amecro, scientificName |-> N_LaHy,
       commonNameEBird |-> CN_Gull, commonNameIBP |-> CN_Crow],
      [alpha4Code |-> A_AMCR, ebird6Code |-> E_amecro, scientificName |-> N_LaGlKu,
       commonNameEBird |-> CN_Crow, commonNameIBP |-> CN_Crow],
      [alpha4Code |-> A_bad, ebird6Code |-> E_norcar, scientificName |-> N_LaGl,
       commonNameEBird |-> CN_Crow, commonNameIBP |-> CN_Crow],
      [alpha4Code |-> <<>>, ebird6Code |-> E_mallar, scientificName |-> N_LaGl,
       commonNameEBird |-> CN_Crow, commonNameIBP |-> CN_Crow],
      [alpha4Code |-> A_MALL, ebird6Code |-> E_bad, scientificName |-> N_LaGl,
       commonNameEBird |-> <<>>, commonNameIBP |-> <<>>],
      [alpha4Code |-> A_MALL, ebird6Code |-> E_mallar, scientificName |-> N_LaGl,
       commonNameEBird |-> <<>>, commonNameIBP |-> CN_Gull] }

OptionsPool ==
    { [source |-> src, sourceVersion |-> ver, updatedAt |-> at,
       preferredCommonNameSource |-> pref] :
          src \in {S_xlsx, S_blank, <<>>}, ver \in {V_2024_09, S_blank, <<>>},
          at \in {D_iso, D_bad, <<>>}, pref \in {"ebird", "ibp", "absent"} }

(***************************************************************************)
(* Initial states and specifications                                       *)
(***************************************************************************)
NormIdle == sciName = <<>> /\ normOut = <<>>

ParseIdle ==
    /\ ebirdText = EmptyText
    /\ ibpText = EmptyText
    /\ parseOpts = [source |-> "none", filterSpeciesOnly |-> FALSE,
                    excludeSubspecies |-> FALSE]
    /\ ebirdParsed = NONE
    /\ ibpParsed = NONE

JoinLocalsIdle ==
    /\ ebirdSorted = <<>>
    /\ jIdx = 0
    /\ matched = <<>>
    /\ matchedFrom = <<>>
    /\ unmatchedEBird = <<>>
    /\ consumedIBP = {}
    /\ joinResult = NONE

JoinIdle ==
    /\ ebirdRecords = <<>>
    /\ ibpRecords = <<>>
    /\ variantPolicy = "all"
    /\ JoinLocalsIdle

ExactIdle == joinOpts = NONE /\ exactResult = NONE

TransformLocalsIdle ==
    /\ tIdx = 0
    /\ mappingRecords = <<>>
    /\ errors = <<>>
    /\ seenAlpha4Codes = {}
    /\ counters = ZeroCounters
    /\ transformResult = NONE

TransformIdle ==
    /\ joinedRecords = <<>>
    /\ options = NONE
    /\ TransformLocalsIdle

BuildIdle == buildOpts = NONE /\ buildResult = NONE /\ disk = NONE /\ history = <<>>

\* The normalizer called on one name
InitNorm ==
    /\ pc = "norm"
    /\ sciName \in NormInputs
    /\ normOut = <<>>
    /\ ParseIdle /\ JoinIdle /\ TransformIdle /\ BuildIdle /\ ExactIdle

NextNorm == ApplyNormalizer

SpecNorm == InitNorm /\ [][NextNorm]_vars

\* One parser called on one input text
InitParse ==
    /\ pc = "parse_call"
    /\ \/ /\ \E h \in EBirdHeaders, rows \in SeqsUpTo(EBirdRowPool, MaxRows) :
               ebirdText = MkText(h.bom, h.header, rows)
          /\ ibpText = EmptyText
          /\ \E f \in BOOLEAN :
               parseOpts = [source |-> "ebird", filterSpeciesOnly |-> f,
                            excludeSubspecies |-> FALSE]
       \/ /\ \E h \in IBPHeaders, rows \in SeqsUpTo(IBPRowPool, MaxRows) :
               ibpText = MkText(h.bom, h.header, rows)
          /\ ebirdText = EmptyText
          /\ \E x \in BOOLEAN :
               parseOpts = [source |-> "ibp", filterSpeciesOnly |-> FALSE,
                            excludeSubspecies |-> x]
    /\ ebirdParsed = NONE
    /\ ibpParsed = NONE
    /\ NormIdle /\ JoinIdle /\ TransformIdle /\ BuildIdle /\ ExactIdle

NextParse == ParseEBird \/ ParseIBP

SpecParse == InitParse /\ [][NextParse]_vars

\* joinByScientificNameVariants called on two record arrays
InitJoin ==
    /\ pc = "join_call"
    /\ ebirdRecords \in SeqsUpTo(EBirdPool, MaxEBird)
    /\ ibpRecords \in SeqsUpTo(IBPPool, MaxIBP)
    /\ variantPolicy \in {"species", "species+subspecies", "all"}
    /\ JoinLocalsIdle
    /\ NormIdle /\ ParseIdle /\ TransformIdle /\ BuildIdle /\ ExactIdle

NextJoin == JoinBegin \/ JoinStep \/ JoinReturn

SpecJoin == InitJoin /\ [][NextJoin]_vars

\* Records given to the exact join: the banding side also has two records
\* with one scientific name and different codes
ExactEBirdPool == {e \in EBirdPool : e.category # S_hybrid}
ExactIBPPool ==
    IBPPool \cup { [alpha4Code |-> A_NOCA, scientificName |-> N_LaGl, commonName |-> CN_Gull,
                    spec6Code |-> <<>>] }

\* joinByScientificName called on two record arrays
InitExact ==
    /\ pc = "exact_call"
    /\ ebirdRecords \in SeqsUpTo(ExactEBirdPool, MaxEBird)
    /\ ibpRecords \in SeqsUpTo(ExactIBPPool, MaxIBP)
    /\ variantPolicy = "all"
    /\ JoinLocalsIdle
    /\ joinOpts \in [strictMode : BOOLEAN, validateCommonNames : BOOLEAN]
    /\ exactResult = NONE
    /\ NormIdle /\ ParseIdle /\ TransformIdle /\ BuildIdle

NextExact == ExactJoin

SpecExact == InitExact /\ [][NextExact]_vars

\* transformToMappingRecords called on joined pairs and run metadata
InitTransform ==
    /\ pc = "transform_call"
    /\ joinedRecords \in SeqsUpTo(JoinedPool, MaxJoined)
    /\ options \in OptionsPool
    /\ TransformLocalsIdle
    /\ NormIdle /\ ParseIdle /\ JoinIdle /\ BuildIdle /\ ExactIdle

NextTransform == TransformBegin \/ TransformStep \/ TransformReturn

SpecTransform == InitTransform /\ [][NextTransform]_vars

\* runBuildMapping: parse, join (policy 'all'), transform, write
BuildEBirdRows == {r \in EBirdRowPool : r.SPECIES_CODE # <<>> /\ r.SCI_NAME \in {N_LaGl, N_LaHy, N_LaGlKu}}
BuildIBPRows == {r \in IBPRowPool : r.SPEC \in {A_AMCR, A_NOCA} \/ r.SCINAME = N_LaGlKu}

Init ==
    /\ pc = "build_call"
    /\ \E erows \in SeqsUpTo(BuildEBirdRows, MaxRows), irows \in SeqsUpTo(BuildIBPRows, MaxRows) :
           disk = [ebirdCsv |-> MkText(0, EBirdExpectedColumns, erows),
                   ibpCsv |-> MkText(0, IBPColumns, irows),
                   dirs |-> {}, files |-> <<>>]
    /\ ebirdText = EmptyText
    /\ ibpText = EmptyText
    /\ parseOpts = [source |-> "build", filterSpeciesOnly |-> FALSE,
                    excludeSubspecies |-> FALSE]
    /\ ebirdParsed = NONE
    /\ ibpParsed = NONE
    /\ buildOpts \in { [mapVersion |-> V_2024_09, updatedAt |-> at,
                        preferredCommonNameSource |-> pref, outputDir |-> S_out] :
                           at \in {D_iso, D_bad}, pref \in {"ebird", "ibp", "absent"} }
    /\ buildResult = NONE
    /\ history = <<>>
    /\ NormIdle /\ JoinIdle /\ TransformIdle /\ ExactIdle

Next ==
    \/ BuildParse
    \/ JoinBegin \/ JoinStep \/ JoinReturn
    \/ BuildTransform
    \/ TransformBegin \/ TransformStep \/ TransformReturn
    \/ BuildFinish

Spec == Init /\ [][Next]_vars

\* A sequence of runBuildMapping calls over one file system whose input files
\* stay as they are: a missing file, a file whose header lacks columns, and
\* files with rows that contend for one banding record or disagree with the
\* banding side on the common name
BuildsEBirdFiles ==
    LET crow == [CATEGORY |-> S_species, SPECIES_CODE |-> E_amecro,
                 PRIMARY_COM_NAME |-> CN_Crow, SCI_NAME |-> N_LaGl]
        rival == [CATEGORY |-> S_species, SPECIES_CODE |-> E_norcar,
                  PRIMARY_COM_NAME |-> CN_Gull, SCI_NAME |-> N_LaGl]
        other == [CATEGORY |-> S_species, SPECIES_CODE |-> E_mallar,
                  PRIMARY_COM_NAME |-> CN_Gull, SCI_NAME |-> N_LaHy]
    IN  { NONE,
          MkText(0, <<"TAXON_ORDER", "CATEGORY", "SPECIES_CODE">>, <<crow>>),
          MkText(0, EBirdExpectedColumns, <<rival, crow>>),
          MkText(1, EBirdExpectedColumns, <<crow, other>>) }

BuildsIBPFiles ==
    LET amcr == [SP |-> <<>>, SPEC |-> A_AMCR, COMMONNAME |-> CN_Gull, SCINAME |-> N_LaGl,
                 SPEC6 |-> <<>>]
        noca == [SP |-> <<>>, SPEC |-> A_NOCA, COMMONNAME |-> CN_Gull, SCINAME |-> N_LaHy,
                 SPEC6 |-> <<>>]
    IN  { NONE,
          MkText(0, <<"SP", "SPEC", "COMMONNAME">>, <<amcr>>),
          MkText(0, IBPColumns, <<amcr, noca>>) }

BuildsOptionsPool ==
    { [mapVersion |-> V_2024_09, updatedAt |-> D_iso, preferredCommonNameSource |-> "ebird",
       outputDir |-> S_out],
      [mapVersion |-> V_2024_09, updatedAt |-> D_iso, preferredCommonNameSource |-> "ibp",
       outputDir |-> S_out],
      [mapVersion |-> V_hotfix, updatedAt |-> D_iso, preferredCommonNameSource |-> "absent",
       outputDir |-> "absent"],
      [mapVersion |-> V_bad, updatedAt |-> D_iso, preferredCommonNameSource |-> "ebird",
       outputDir |-> S_out],
      [mapVersion |-> V_2024_09, updatedAt |-> D_bad, preferredCommonNameSource |-> "ebird",
       outputDir |-> S_out] }

\* The next call of runBuildMapping, in a fresh activation, on the file system
\* the earlier calls left
BuildAgain ==
    /\ pc \in {"build_done", "build_failed"}
    /\ Len(history) < MaxBuilds
    /\ buildOpts' \in BuildsOptionsPool
    /\ buildResult' = NONE
    /\ pc' = "build_call"
    /\ ebirdText' = EmptyText /\ ibpText' = EmptyText
    /\ ebirdParsed' = NONE /\ ibpParsed' = NONE
    /\ ebirdRecords' = <<>> /\ ibpRecords' = <<>>
    /\ ebirdSorted' = <<>> /\ jIdx' = 0 /\ matched' = <<>> /\ matchedFrom' = <<>>
    /\ unmatchedEBird' = <<>> /\ consumedIBP' = {} /\ joinResult' = NONE
    /\ joinedRecords' = <<>> /\ options' = NONE
    /\ tIdx' = 0 /\ mappingRecords' = <<>> /\ errors' = <<>> /\ seenAlpha4Codes' = {}
    /\ counters' = ZeroCounters /\ transformResult' = NONE
    /\ UNCHANGED <<parseOpts, variantPolicy, disk, history>>
    /\ UNCHANGED exactVars
    /\ UNCHANGED normVars

InitBuilds ==
    /\ pc = "build_call"
    /\ \E e \in BuildsEBirdFiles, i \in BuildsIBPFiles :
           disk = [ebirdCsv |-> e, ibpCsv |-> i, dirs |-> {}, files |-> <<>>]
    /\ ebirdText = EmptyText
    /\ ibpText = EmptyText
    /\ parseOpts = [source |-> "build", filterSpeciesOnly |-> FALSE,
                    excludeSubspecies |-> FALSE]
    /\ ebirdParsed = NONE
    /\ ibpParsed = NONE
    /\ buildOpts \in BuildsOptionsPool
    /\ buildResult = NONE
    /\ history = <<>>
    /\ NormIdle /\ JoinIdle /\ TransformIdle /\ ExactIdle

NextBuilds ==
    \/ BuildParse
    \/ JoinBegin \/ JoinStep \/ JoinReturn
    \/ BuildTransform
    \/ TransformBegin \/ TransformStep \/ TransformReturn
    \/ BuildFinish
    \/ BuildAgain

SpecBuilds == InitBuilds /\ [][NextBuilds]_vars

(***************************************************************************)
(* Properties                                                              *)
(***************************************************************************)
\* The seven fields of a MappingRecord are present and well-formed
WellFormedMapping(r) ==
    /\ \A f \in {"alpha4", "ebird6", "common_name", "scientific_name", "source",
                 "source_version", "updated_at"} : r[f] # <<>>
    /\ Len(r.alpha4) = 4 /\ \A i \in 1..4 : r.alpha4[i] \in Upper
    /\ Len(r.ebird6) \in 4..8
    /\ \A i \in 1..Len(r.ebird6) : r.ebird6[i] \in Lower \cup Digit
    /\ isValidScientificName(r.scientific_name)
    /\ ~DateParseIsNaN(r.updated_at)

\* C1: the mapping records built by transformToMappingRecords, during the loop
\* and in the returned result, have pairwise distinct alpha4 values.
C1_Alpha4Distinct ==
    /\ \A i, j \in 1..Len(mappingRecords) :
           i # j => mappingRecords[i].alpha4 # mappingRecords[j].alpha4
    /\ pc = "transformed" =>
           \A i, j \in 1..Len(transformResult.mappingRecords) :
               i # j => transformResult.mappingRecords[i].alpha4
                            # transformResult.mappingRecords[j].alpha4

\* A batch that offered a repeated alpha4 and still returned two records
C1_Witness ==
    /\ pc = "transformed"
    /\ Len(transformResult.mappingRecords) >= 2
    /\ transformResult.stats.duplicateAlpha4Codes >= 1

\* C2: the mapping set written by runBuildMapping (parse, variant-aware join,
\* transform) has pairwise distinct species codes (ebird6).
C2_CodesDistinct ==
    pc = "build_done" =>
        \A i, j \in 1..Len(buildResult.written) :
            i # j => buildResult.written[i].ebird6 # buildResult.written[j].ebird6

\* C3: every record emitted by transformToMappingRecords has all seven fields
\* non-empty, a well-formed alpha4, code and scientific name and a parseable
\* timestamp; a record failing any of these is never emitted.
C3_EmittedAreValid ==
    /\ \A i \in 1..Len(mappingRecords) : WellFormedMapping(mappingRecords[i])
    /\ pc = "transformed" =>
           \A i \in 1..Len(transformResult.mappingRecords) :
               WellFormedMapping(transformResult.mappingRecords[i])

\* A batch in which one pair was emitted and another dropped by validation
C3_Witness ==
    /\ pc = "transformed"
    /\ Len(transformResult.mappingRecords) >= 1
    /\ transformResult.stats.validationErrors >= 1
    /\ \E i \in 1..Len(joinedRecords) :
           ~WellFormedMapping(MappingRecord(joinedRecords[i], options))

\* C4: applyGenusAdjustments is idempotent: a call on the result of a call
\* returns that result; and one call makes at most one substitution, taken
\* from a rule whose source is the input.
C4_Idempotent ==
    /\ \A i \in 2..Len(normOut) : normOut[i] = normOut[i - 1]
    /\ Len(normOut) >= 1 =>
           normOut[1] \in {sciName}
               \cup {GENUS_ADJUSTMENT_RULES_V1[k].to : k \in
                        {k \in 1..Len(GENUS_ADJUSTMENT_RULES_V1) :
                             GENUS_ADJUSTMENT_RULES_V1[k].from = sciName}}

\* A name that a rule rewrites, normalized twice
C4_Witness ==
    /\ Len(normOut) >= 2
    /\ normOut[1] # sciName

\* C5: the statistics of every parse result add up:
\* validRecords + skippedRecords + errorRecords = totalRows.
C5_StatsAddUp ==
    pc = "parsed" =>
        LET st == IF parseOpts.source = "ebird" THEN ebirdParsed.stats ELSE ibpParsed.stats
        IN  st.validRecords + st.skippedRecords + st.errorRecords = st.totalRows

\* The checklist categories a variant policy lets through
Admitted(policy, category) ==
    CASE policy = "species" -> category = S_species
      [] policy = "species+subspecies" -> category \in {S_species, S_issf}
      [] policy = "all" -> TRUE

\* Priority of a checklist category: species, then issf, then slash and hybrid
Priority(category) ==
    IF category = S_species THEN 1 ELSE IF category = S_issf THEN 2 ELSE 3

FirstTwoTokens(name) == SubSeq(Split(name), 1, Min(2, Len(Split(name))))

Least(S) == CHOOSE i \in S : \A j \in S : i <= j

\* C6: no banding record is the source of two matched records, every matched
\* record carries the alpha4 of its banding source, and no banding record is
\* both matched and returned in unmatchedIBP.
C6_ConsumedAtMostOnce ==
    /\ Len(matchedFrom) = Len(matched)
    /\ \A i, j \in 1..Len(matchedFrom) : i # j => matchedFrom[i][2] # matchedFrom[j][2]
    /\ \A i \in 1..Len(matchedFrom) :
           matched[i].alpha4Code = ibpRecords[matchedFrom[i][2]].alpha4Code
    /\ pc = "joined" =>
           /\ joinResult.matched = matched
           /\ \A i \in 1..Len(matchedFrom) :
                  matchedFrom[i][2] \notin Range(joinResult.unmatchedIBP)

\* Two checklist records were after the same banding record: one got it, the
\* other is unmatched, and another banding record is left over
C6_Witness ==
    /\ pc = "joined"
    /\ Len(joinResult.unmatchedIBP) >= 1
    /\ \E p \in Range(matchedFrom), u \in Range(unmatchedEBird) :
           ebirdRecords[u].scientificName = ibpRecords[p[2]].scientificName

\* C7: checklist records are processed in priority order, and a banding
\* record b whose name is the full name of an admitted checklist record h is
\* never paired with a record of lower priority than h, unless h is paired
\* with another banding record of that full name.
C7_PriorityOrder ==
    /\ pc \in {"join_loop", "joined"} =>
           /\ Len(ebirdSorted) = Len(ebirdRecords)
           /\ Range(ebirdSorted) = 1..Len(ebirdRecords)
           /\ \A i, j \in 1..Len(ebirdSorted) :
                  i < j => Priority(ebirdRecords[ebirdSorted[i]].category)
                               <= Priority(ebirdRecords[ebirdSorted[j]].category)
    /\ \A h \in 1..Len(ebirdRecords) : \A p \in Range(matchedFrom) :
           ( /\ Admitted(variantPolicy, ebirdRecords[h].category)
             /\ ebirdRecords[h].scientificName = ibpRecords[p[2]].scientificName
             /\ Priority(ebirdRecords[p[1]].category) > Priority(ebirdRecords[h].category) )
           => \E q \in Range(matchedFrom) :
                  /\ q[1] = h
                  /\ q[2] # p[2]
                  /\ ibpRecords[q[2]].scientificName = ebirdRecords[h].scientificName

\* A lower-priority record that comes first in the input and could take the
\* banding record (same binomial), while the higher-priority record got it
C7_Witness ==
    /\ pc = "joined"
    /\ \E p \in Range(matchedFrom) : \E l \in 1..Len(ebirdRecords) :
           /\ l < p[1]
           /\ Priority(ebirdRecords[l].category) > Priority(ebirdRecords[p[1]].category)
           /\ Admitted(variantPolicy, ebirdRecords[l].category)
           /\ ebirdRecords[p[1]].scientificName = ibpRecords[p[2]].scientificName
           /\ FirstTwoTokens(ebirdRecords[l].scientificName)
                  = FirstTwoTokens(ibpRecords[p[2]].scientificName)
           /\ l \in Range(unmatchedEBird)

C9_PolicyFirst ==
    /\ \A p \in Range(matchedFrom) :
           Admitted(variantPolicy, ebirdRecords[p[1]].category)
    /\ consumedIBP = {p[2] : p \in Range(matchedFrom)}
    /\ (pc = "joined" /\ variantPolicy = "all") =>
           \A i \in 1..Len(ebirdRecords) :
               i \in {p[1] : p \in Range(matchedFrom)} \cup Range(unmatchedEBird)

\* Under a narrower policy, an excluded record whose full name is that of a
\* banding record that stayed unmatched
C9_Witness ==
    /\ pc = "joined"
    /\ variantPolicy # "all"
    /\ matched # <<>>
    /\ \E i \in 1..Len(ebirdRecords) : \E b \in Range(joinResult.unmatchedIBP) :
           /\ ~Admitted(variantPolicy, ebirdRecords[i].category)
           /\ ebirdRecords[i].scientificName = ibpRecords[b].scientificName

\* C10: the variant-aware join always returns success = TRUE with no
\* duplicate names reported; what is not matched is in the unmatched lists.
C10_NeverFails ==
    pc = "joined" =>
        /\ joinResult.success = TRUE
        /\ joinResult.duplicateScientificNames = <<>>
        /\ joinResult.stats.duplicateScientificNames = 0
        /\ Range(joinResult.unmatchedIBP)
               = (1..Len(ibpRecords)) \ {p[2] : p \in Range(matchedFrom)}
        /\ Range(joinResult.unmatchedEBird) \cap {p[1] : p \in Range(matchedFrom)} = {}

\* Inputs with a repeated scientific name and no match at all
C10_Witness ==
    /\ pc = "joined"
    /\ \E i, j \in 1..Len(ebirdRecords) :
           i # j /\ ebirdRecords[i].scientificName = ebirdRecords[j].scientificName
    /\ ibpRecords # <<>>
    /\ joinResult.matched = <<>>
    /\ Len(joinResult.unmatchedEBird) = Len(ebirdRecords)

\* A string that is empty or consists of white space only
Blank(s) == \A i \in 1..Len(s) : s[i] \in WhiteSpace

\* The run metadata transformToMappingRecords refuses
BadMetadata(opts) ==
    Blank(opts.source) \/ Blank(opts.sourceVersion) \/ DateParseIsNaN(opts.updatedAt)

\* C11: when source or sourceVersion is empty or blank, or updatedAt is not
\* parseable, transformToMappingRecords never enters its loop (no pair is
\* processed) and returns success = false, no mapping records, only
\* INVALID_SOURCE_METADATA errors and zero successfulTransformations,
\* nameConflicts and duplicateAlpha4Codes, whatever the joined pairs are.
C11_MetadataFirst ==
    (pc \in {"transform_loop", "transformed"} /\ BadMetadata(options)) =>
        /\ pc = "transformed"
        /\ mappingRecords = <<>> /\ errors = <<>> /\ seenAlpha4Codes = {}
        /\ counters = ZeroCounters
        /\ transformResult.success = FALSE
        /\ transformResult.mappingRecords = <<>>
        /\ Len(transformResult.errors) >= 1
        /\ \A i \in 1..Len(transformResult.errors) :
               transformResult.errors[i].type = "INVALID_SOURCE_METADATA"
        /\ transformResult.stats.successfulTransformations = 0
        /\ transformResult.stats.nameConflicts = 0
        /\ transformResult.stats.duplicateAlpha4Codes = 0

\* A batch of well-formed pairs with conflicting names returned for a blank
\* sourceVersion
C11_Witness ==
    /\ pc = "transformed"
    /\ Blank(options.sourceVersion) /\ ~Blank(options.source)
    /\ ~DateParseIsNaN(options.updatedAt)
    /\ Len(joinedRecords) >= 2
    /\ \E i \in 1..Len(joinedRecords) :
           /\ joinedRecords[i].commonNameEBird # joinedRecords[i].commonNameIBP
           /\ isValidAlpha4Code(joinedRecords[i].alpha4Code)
    /\ transformResult.success = FALSE

\* The alpha4 values of the records emitted so far
EmittedAlpha4 == {mappingRecords[i].alpha4 : i \in 1..Len(mappingRecords)}

\* C12: in every iteration of the transform loop the pair is rejected as a
\* duplicate key (duplicateAlpha4Codes grows) exactly when a record with the
\* same alpha4 has already been emitted into mappingRecords; earlier
\* occurrences dropped by schema validation do not make a pair a duplicate.
C12_DuplicateIffEmitted ==
    [][(pc = "transform_loop" /\ tIdx <= Len(joinedRecords) /\ tIdx' = tIdx + 1) =>
          ((counters'.duplicateAlpha4Codes = counters.duplicateAlpha4Codes + 1)
               <=> (joinedRecords[tIdx].alpha4Code \in EmittedAlpha4))]_vars

\* C13: every result of transformToMappingRecords has success = true exactly
\* when stats.duplicateAlpha4Codes = 0 and stats.validationErrors = 0, and
\* carries populated statistics and metadata whatever success is; a batch of
\* two pairs with the same alpha4 (valid metadata) drops the second pair, with
\* duplicateAlpha4Codes = 1 and success = false.
C13_SuccessIffNoDrops ==
    pc = "transformed" =>
        LET res == transformResult
        IN  /\ res.success <=> (res.stats.duplicateAlpha4Codes = 0
                                   /\ res.stats.validationErrors = 0)
            /\ res.stats.totalInputRecords = Len(joinedRecords)
            /\ res.stats.successfulTransformations = Len(res.mappingRecords)
            /\ res.metadata.recordCount = Len(res.mappingRecords)
            /\ res.metadata.sourceInfo.source # <<>>
            /\ res.metadata.sourceInfo.version # <<>>
            /\ (/\ ~BadMetadata(options)
                /\ Len(joinedRecords) = 2
                /\ joinedRecords[1].alpha4Code = joinedRecords[2].alpha4Code)
               => /\ res.stats.duplicateAlpha4Codes = 1
                  /\ res.success = FALSE
                  /\ Len(res.mappingRecords) <= 1
                  /\ \A i \in 1..Len(res.mappingRecords) :
                         res.mappingRecords[i] = MappingRecord(joinedRecords[1], options)

\* Two well-formed pairs with the same alpha4: one emitted, one dropped, and
\* no schema-validation drop
C13_Witness ==
    /\ pc = "transformed"
    /\ Len(joinedRecords) = 2
    /\ joinedRecords[1].alpha4Code = joinedRecords[2].alpha4Code
    /\ Len(transformResult.mappingRecords) = 1
    /\ transformResult.stats.duplicateAlpha4Codes = 1
    /\ transformResult.stats.validationErrors = 0
    /\ transformResult.success = FALSE

\* One iteration of the transform loop is taken from this state
LoopIteration == pc = "transform_loop" /\ tIdx <= Len(joinedRecords) /\ tIdx' = tIdx + 1

\* The two common names of the pair differ
NamesDiffer(j) == j.commonNameEBird # j.commonNameIBP

\* The side the preference names: the banding side for 'ibp', else the checklist side
PreferredName(j, opts) ==
    IF opts.preferredCommonNameSource = "ibp" THEN j.commonNameIBP ELSE j.commonNameEBird

\* C14 as stated: every iteration on a pair whose two common names differ
\* increments nameConflicts by one, every iteration on a pair with equal
\* names leaves it, and an emitted record carries the preferred side's name.
C14_EveryPairCounted ==
    [][LoopIteration =>
          /\ counters'.nameConflicts =
                 counters.nameConflicts + (IF NamesDiffer(joinedRecords[tIdx]) THEN 1 ELSE 0)
          /\ Len(mappingRecords') > Len(mappingRecords) =>
                 mappingRecords'[Len(mappingRecords')].common_name
                     = PreferredName(joinedRecords[tIdx], options)]_vars

\* C14 (amended): every iteration on a pair that the duplicate-key guard does
\* not reject increments nameConflicts by one exactly when the pair's two
\* common names differ (also when the pair is then dropped by validation); a
\* pair rejected as a duplicate key leaves nameConflicts unchanged; an emitted
\* record has the banding-side name when preferredCommonNameSource is 'ibp'
\* and the checklist-side name otherwise, the option being absent included.
C14_ResolvedPairsCounted ==
    [][LoopIteration =>
          LET j == joinedRecords[tIdx]
              rejected == counters'.duplicateAlpha4Codes > counters.duplicateAlpha4Codes
          IN  /\ rejected => counters'.nameConflicts = counters.nameConflicts
              /\ ~rejected => counters'.nameConflicts =
                                  counters.nameConflicts + (IF NamesDiffer(j) THEN 1 ELSE 0)
              /\ Len(mappingRecords') > Len(mappingRecords) =>
                     /\ mappingRecords' = Append(mappingRecords, mappingRecords'[Len(mappingRecords')])
                     /\ mappingRecords'[Len(mappingRecords')].common_name
                            = PreferredName(j, options)]_vars

\* A batch with preference 'ibp' that emitted the banding-side name of a pair
\* with differing names and rejected a later pair with differing names as a
\* duplicate key
C14_Witness ==
    /\ pc = "transformed"
    /\ options.preferredCommonNameSource = "ibp"
    /\ \E i \in 1..Len(joinedRecords), k \in 1..Len(transformResult.mappingRecords) :
           /\ NamesDiffer(joinedRecords[i])
           /\ transformResult.mappingRecords[k].alpha4 = joinedRecords[i].alpha4Code
           /\ transformResult.mappingRecords[k].common_name = joinedRecords[i].commonNameIBP
           /\ \E d \in (i + 1)..Len(joinedRecords) :
                  /\ NamesDiffer(joinedRecords[d])
                  /\ joinedRecords[d].alpha4Code = joinedRecords[i].alpha4Code
    /\ transformResult.stats.duplicateAlpha4Codes >= 1
    /\ transformResult.stats.nameConflicts >= 1

\* The columns a banding row cannot do without: the key and the scientific name
IBPRequiredColumns == {"SPEC", "SCINAME"}

\* The header of the text lacks one of the columns
HeaderLacks(text, columns) ==
    \E c \in columns : c \notin {text.header[k] : k \in 1..Len(text.header)}

\* The result is a structural failure: no success, no records, one error that
\* belongs to no row
StructuralFailure(res) ==
    /\ res.success = FALSE
    /\ res.records = <<>>
    /\ Len(res.errors) = 1
    /\ res.errors[1].row = 0

\* C15: a parser given a header that lacks a required column of its source
\* returns success = false, zero records and exactly one structural error, and
\* no per-row error.
C15_HeaderCheckedFirst ==
    pc = "parsed" =>
        /\ (parseOpts.source = "ebird" /\ HeaderLacks(ebirdText, Range(EBirdExpectedColumns)))
               => StructuralFailure(ebirdParsed)
        /\ (parseOpts.source = "ibp" /\ HeaderLacks(ibpText, IBPRequiredColumns))
               => StructuralFailure(ibpParsed)

\* The row objects the parser of the called source iterates over
ParsedRows ==
    csvParse(stripBOM(IF parseOpts.source = "ebird" THEN ebirdText ELSE ibpText))

\* The result of the parser that was called
Parsed == IF parseOpts.source = "ebird" THEN ebirdParsed ELSE ibpParsed

\* The 1-based positions of the rows the source's filter is set to drop
FilteredRows ==
    {i \in 1..Len(ParsedRows) :
        IF parseOpts.source = "ebird"
        THEN parseOpts.filterSpeciesOnly /\ Field(ParsedRows[i], "CATEGORY") # S_species
        ELSE parseOpts.excludeSubspecies /\ Field(ParsedRows[i], "SP") = <<"+">>}

\* The row has a non-empty key and a non-empty scientific name
KeyAndNamePresent(r) ==
    IF parseOpts.source = "ebird"
    THEN Field(r, "SPECIES_CODE") # <<>> /\ Field(r, "SCI_NAME") # <<>>
    ELSE Field(r, "SPEC") # <<>> /\ Field(r, "SCINAME") # <<>>

\* The parse got past the header check and reached the rows
RowsReached ==
    /\ pc = "parsed"
    /\ Len(ParsedRows) > 0
    /\ parseOpts.source = "ebird" => ~HeaderLacks(ebirdText, Range(EBirdExpectedColumns))

\* Each row of the set is a silent skip: no error names it, and the rows of
\* the set are all counted as skipped, none as valid or as an error
SilentlySkipped(rowSet) ==
    /\ \A k \in 1..Len(Parsed.errors) : Parsed.errors[k].row \notin rowSet
    /\ Parsed.stats.skippedRecords >= Cardinality(rowSet)
    /\ Parsed.stats.validRecords + Parsed.stats.errorRecords
           <= Parsed.stats.totalRows - Cardinality(rowSet)

\* C16 as stated: every row the filter of its source is set to drop is a
\* silent skip, whatever its other fields are.
C16_FilteredAlwaysSkipped == RowsReached => SilentlySkipped(FilteredRows)

\* C16 (amended): every row with a non-empty key and a non-empty scientific
\* name that the filter of its source is set to drop (non-species category
\* under filterSpeciesOnly, SP marker '+' under excludeSubspecies) is a silent
\* skip: counted in skippedRecords, with no error.
C16_FilteredSkippedWhenKeyed ==
    RowsReached =>
        SilentlySkipped({i \in FilteredRows : KeyAndNamePresent(ParsedRows[i])})

\* A checklist parse under filterSpeciesOnly with a keyed non-species row
\* skipped and a species row kept
C16_Witness ==
    /\ RowsReached
    /\ parseOpts.source = "ebird"
    /\ \E i \in FilteredRows : KeyAndNamePresent(ParsedRows[i])
    /\ ebirdParsed.stats.skippedRecords >= 1
    /\ ebirdParsed.stats.validRecords >= 1

\* The key, the scientific name and the common name of a row, as read by the
\* parser of the called source
RowCode(r) == IF parseOpts.source = "ebird" THEN Field(r, "SPECIES_CODE") ELSE Field(r, "SPEC")
RowName(r) == IF parseOpts.source = "ebird" THEN Field(r, "SCI_NAME") ELSE Field(r, "SCINAME")
RowCommonName(r) ==
    IF parseOpts.source = "ebird" THEN Field(r, "PRIMARY_COM_NAME") ELSE Field(r, "COMMONNAME")

\* The key of the row has the format of its source
CodeWellFormed(r) ==
    IF parseOpts.source = "ebird" THEN isValidEBirdCode(RowCode(r))
    ELSE isValidAlpha4Code(RowCode(r))

\* The key of a record of the called source
RecordCode(rec) == IF parseOpts.source = "ebird" THEN rec.speciesCode ELSE rec.alpha4Code

HybridMarker == <<" ", "x", " ">>
SlashMarker == <<"/">>
IndeterminateMarker == <<" ", "s", "p", ".">>

\* The rows that are keyed and not dropped by the filter of their source
KeptRows == {i \in 1..Len(ParsedRows) : KeyAndNamePresent(ParsedRows[i])} \ FilteredRows

\* Each row of the set is accepted: no error names it, and a record with its
\* key and its normalized name is returned for it
Accepted(rowSet) ==
    /\ \A k \in 1..Len(Parsed.errors) : Parsed.errors[k].row \notin rowSet
    /\ Parsed.stats.validRecords >= Cardinality(rowSet)
    /\ \A i \in rowSet : \E k \in 1..Len(Parsed.records) :
           /\ RecordCode(Parsed.records[k]) = RowCode(ParsedRows[i])
           /\ Parsed.records[k].scientificName = normalizeScientificName(RowName(ParsedRows[i]))

\* C17: a keyed row with a well-formed code, not dropped by a filter, whose
\* normalized name fails the strict pattern but whose name contains the
\* hybrid marker ' x ' or the slash marker yields a valid record and no error.
C17_HybridAndSlashAccepted ==
    RowsReached =>
        Accepted({i \in KeptRows :
                     /\ CodeWellFormed(ParsedRows[i])
                     /\ ~isValidScientificName(normalizeScientificName(RowName(ParsedRows[i])))
                     /\ \/ Includes(RowName(ParsedRows[i]), HybridMarker)
                        \/ Includes(RowName(ParsedRows[i]), SlashMarker)})

\* C18: in both parsers a keyed row whose scientific name is an indeterminate
\* form (it contains ' sp.') is a silent skip: counted in skippedRecords, with
\* no record and no error.
C18_IndeterminateSkipped ==
    RowsReached =>
        SilentlySkipped({i \in 1..Len(ParsedRows) :
                            /\ KeyAndNamePresent(ParsedRows[i])
                            /\ Includes(RowName(ParsedRows[i]), IndeterminateMarker)})

\* The name of the row is rejected by name validation: not a strict name after
\* normalization, and neither a hybrid, a slash nor an indeterminate form
NameInvalid(r) ==
    /\ ~isValidScientificName(normalizeScientificName(RowName(r)))
    /\ ~Includes(RowName(r), HybridMarker)
    /\ ~Includes(RowName(r), SlashMarker)
    /\ ~Includes(RowName(r), IndeterminateMarker)

\* The errors that name the row at position i
ErrorsOfRow(i) == {k \in 1..Len(Parsed.errors) : Parsed.errors[k].row = i}

\* C19: name validation precedes code-format validation in both parsers: a
\* kept row whose name is invalid and whose code is malformed is reported with
\* the single error INVALID_SCIENTIFIC_NAME, and a code-format error names
\* only rows whose name is not invalid.
C19_NameBeforeCode ==
    RowsReached =>
        /\ \A i \in KeptRows :
               (NameInvalid(ParsedRows[i]) /\ ~CodeWellFormed(ParsedRows[i])) =>
                   /\ Cardinality(ErrorsOfRow(i)) = 1
                   /\ \A k \in ErrorsOfRow(i) :
                          Parsed.errors[k].type = "INVALID_SCIENTIFIC_NAME"
        /\ \A k \in 1..Len(Parsed.errors) :
               Parsed.errors[k].type \in {"INVALID_ALPHA4_CODE", "INVALID_EBIRD_CODE"} =>
                   ~NameInvalid(ParsedRows[Parsed.errors[k].row])

\* The rules of the active correction table
ActiveRules == Range(ACTIVE_GENUS_ADJUSTMENTS.rules)

\* The kept rows with a well-formed code whose raw name is the `from` of the rule
RowsNamed(rule) ==
    {i \in KeptRows : CodeWellFormed(ParsedRows[i]) /\ RowName(ParsedRows[i]) = rule.from}

\* C20: the Normalizer runs before name validation: for every rule {from, to}
\* of the active correction table, a kept row with a well-formed code whose
\* raw scientific name equals `from` yields, with no error, a record with the
\* row's key and common name whose scientificName is `to`; and no returned
\* record has a rule's `from` as its scientificName.
C20_NormalizedBeforeValidation ==
    RowsReached =>
        /\ \A rule \in ActiveRules :
               /\ \A k \in 1..Len(Parsed.errors) : Parsed.errors[k].row \notin RowsNamed(rule)
               /\ \A i \in RowsNamed(rule) : \E k \in 1..Len(Parsed.records) :
                      /\ RecordCode(Parsed.records[k]) = RowCode(ParsedRows[i])
                      /\ Parsed.records[k].commonName = RowCommonName(ParsedRows[i])
                      /\ Parsed.records[k].scientificName = rule.to
        /\ Parsed.stats.validRecords
               >= Cardinality(UNION {RowsNamed(rule) : rule \in ActiveRules})
        /\ \A k \in 1..Len(Parsed.records) : \A rule \in ActiveRules :
               Parsed.records[k].scientificName # rule.from

\* A banding parse that returned records for rows named by two different rules
C20_Witness ==
    /\ RowsReached
    /\ parseOpts.source = "ibp"
    /\ \E r1, r2 \in ActiveRules :
           /\ r1 # r2
           /\ RowsNamed(r1) # {} /\ RowsNamed(r2) # {}
           /\ \E k1, k2 \in 1..Len(ibpParsed.records) :
                  /\ ibpParsed.records[k1].scientificName = r1.to
                  /\ ibpParsed.records[k2].scientificName = r2.to
    /\ ibpParsed.success

\* The scientific names that occur more than once in the record array
RepeatedNames(records) ==
    {records[i].scientificName : i \in {k \in 1..Len(records) :
        \E j \in 1..Len(records) : j # k /\ records[j].scientificName = records[k].scientificName}}

\* The last record of the array with the given name
LastNamed(records, name) ==
    records[CHOOSE i \in 1..Len(records) :
                /\ records[i].scientificName = name
                /\ \A j \in (i + 1)..Len(records) : records[j].scientificName # name]

\* C21: joinByScientificName in strict mode, given a scientific name repeated
\* within the checklist input or within the banding input, aborts: success is
\* false, matched is empty and every input record of both sides is returned
\* as unmatched, in input order.
C21_StrictAborts ==
    (/\ pc = "exact_joined"
     /\ joinOpts.strictMode
     /\ RepeatedNames(ebirdRecords) \cup RepeatedNames(ibpRecords) # {}) =>
        /\ exactResult.success = FALSE
        /\ exactResult.matched = <<>>
        /\ exactResult.unmatchedEBird = ebirdRecords
        /\ exactResult.unmatchedIBP = ibpRecords
        /\ exactResult.stats.successfulMatches = 0

\* A strict join that aborted for a name repeated on the banding side only,
\* although a checklist record has that name
C21_Witness ==
    /\ pc = "exact_joined"
    /\ joinOpts.strictMode
    /\ RepeatedNames(ebirdRecords) = {}
    /\ \E n \in RepeatedNames(ibpRecords) :
           \E i \in 1..Len(ebirdRecords) : ebirdRecords[i].scientificName = n
    /\ exactResult.matched = <<>>
    /\ exactResult.success = FALSE

\* C22: joinByScientificName in lenient mode proceeds when names are repeated,
\* and for every name present on both sides returns exactly one matched
\* record, carrying the code and common name of the last checklist record and
\* of the last banding record with that name.
C22_LenientLastWins ==
    (pc = "exact_joined" /\ ~joinOpts.strictMode) =>
        \A i \in 1..Len(ebirdRecords) : \A j \in 1..Len(ibpRecords) :
            ebirdRecords[i].scientificName = ibpRecords[j].scientificName =>
                LET name == ebirdRecords[i].scientificName
                    e == LastNamed(ebirdRecords, name)
                    b == LastNamed(ibpRecords, name)
                    at == {k \in 1..Len(exactResult.matched) :
                              exactResult.matched[k].scientificName = name}
                IN  /\ Cardinality(at) = 1
                    /\ \A k \in at :
                           /\ exactResult.matched[k].ebird6Code = e.speciesCode
                           /\ exactResult.matched[k].commonNameEBird = e.commonName
                           /\ exactResult.matched[k].alpha4Code = b.alpha4Code
                           /\ exactResult.matched[k].commonNameIBP = b.commonName

\* A lenient join of a name that is repeated on both sides with different
\* codes, matched
C22_Witness ==
    /\ pc = "exact_joined"
    /\ ~joinOpts.strictMode
    /\ \E i, j \in 1..Len(ebirdRecords) : \E k, l \in 1..Len(ibpRecords) :
           /\ i < j /\ k < l
           /\ ebirdRecords[i].scientificName = ebirdRecords[j].scientificName
           /\ ebirdRecords[i].speciesCode # ebirdRecords[j].speciesCode
           /\ ibpRecords[k].scientificName = ebirdRecords[i].scientificName
           /\ ibpRecords[l].scientificName = ebirdRecords[i].scientificName
           /\ ibpRecords[k].alpha4Code # ibpRecords[l].alpha4Code
    /\ Len(exactResult.matched) >= 1

\* C23: in any mode joinByScientificName returns success = true exactly when
\* no scientific name is repeated within the checklist input and none within
\* the banding input; duplicateScientificNames lists each repeated name once,
\* and stats.duplicateScientificNames is its length; for two empty inputs the
\* result is success with no matches and no duplicates.
C23_SuccessIffNoRepeats ==
    pc = "exact_joined" =>
        LET repeated == RepeatedNames(ebirdRecords) \cup RepeatedNames(ibpRecords)
            listed == exactResult.duplicateScientificNames
        IN  /\ exactResult.success <=> (repeated = {})
            /\ {listed[k] : k \in 1..Len(listed)} = repeated
            /\ Len(listed) = Cardinality(repeated)
            /\ exactResult.stats.duplicateScientificNames = Len(listed)
            /\ (ebirdRecords = <<>> /\ ibpRecords = <<>>) =>
                   /\ exactResult.success
                   /\ exactResult.matched = <<>>
                   /\ listed = <<>>
                   /\ exactResult.stats = EmptyJoinStats

\* A lenient join with one name repeated on both sides, listed once, and
\* another name matched
C23_Witness ==
    /\ pc = "exact_joined"
    /\ ~joinOpts.strictMode
    /\ RepeatedNames(ebirdRecords) \cap RepeatedNames(ibpRecords) # {}
    /\ Len(exactResult.duplicateScientificNames) = 1
    /\ exactResult.success = FALSE
    /\ Len(exactResult.matched) >= 1

\* The version format YYYY.MM[.DD][-hotfix.N]
CalVerShape(s) ==
    \E core \in {7, 10} :
        /\ Len(s) >= core
        /\ \A i \in {1, 2, 3, 4, 6, 7} : s[i] \in Digit
        /\ s[5] = "."
        /\ core = 10 => (s[8] = "." /\ s[9] \in Digit /\ s[10] \in Digit)
        /\ \/ Len(s) = core
           \/ \E n \in 1..Len(s) :
                  /\ Len(s) = core + Len(S_hotfix) + n
                  /\ SubSeq(s, core + 1, core + Len(S_hotfix)) = S_hotfix
                  /\ \A i \in (Len(s) - n + 1)..Len(s) : s[i] \in Digit

FailFastMessages ==
    {"Invalid mapVersion CalVer format", "eBird CSV not found", "IBP-AOS CSV not found"}

\* C24: a call of runBuildMapping whose mapVersion is not of the form
\* YYYY.MM[.DD][-hotfix.N], or one of whose input files does not exist, throws
\* in its first step: no input has been read or parsed, no directory has been
\* created, no file has been written, and the file system is as it was.
C24_FailsFast ==
    [][(pc = "build_call"
        /\ (~CalVerShape(buildOpts.mapVersion) \/ disk.ebirdCsv = NONE \/ disk.ibpCsv = NONE))
       => /\ pc' = "build_failed"
          /\ buildResult'.thrown \in FailFastMessages
          /\ ebirdText' = EmptyText /\ ibpText' = EmptyText
          /\ ebirdParsed' = NONE /\ ibpParsed' = NONE
          /\ disk' = disk]_vars

C24_Witness ==
    /\ pc = "build_failed"
    /\ buildResult.thrown = "Invalid mapVersion CalVer format"
    /\ ~CalVerShape(buildOpts.mapVersion)
    /\ disk.ebirdCsv # NONE /\ disk.ibpCsv # NONE
    /\ DOMAIN disk.files # {}
    /\ ebirdText = EmptyText /\ ebirdParsed = NONE

\* C25: artifacts are write-once across builds: no step of a later build
\* changes or removes a file that an earlier build wrote, also when the later
\* build is given the same mapVersion.
C25_WriteOnce ==
    [][\A p \in DOMAIN disk.files :
           p \in DOMAIN disk.files' /\ disk.files'[p] = disk.files[p]]_vars

\* The position in `matched` of the pair made from checklist record i (0: none)
MatchedAt(i) ==
    IF \E k \in 1..Len(matchedFrom) : matchedFrom[k][1] = i
    THEN CHOOSE k \in 1..Len(matchedFrom) : matchedFrom[k][1] = i
    ELSE 0

\* Banding record b is one that checklist record e looks at: it has e's full
\* name or e's binomial
Contends(e, b) ==
    \/ b.scientificName = e.scientificName
    \/ toBinomial(b.scientificName) = toBinomial(e.scientificName)

AdmittedRecords ==
    {i \in 1..Len(ebirdRecords) : Admitted(variantPolicy, ebirdRecords[i].category)}

\* C27: accounting of the variant-aware join: matches plus unmatched banding
\* records equals the number of banding records; the counters are the lengths
\* of the returned lists; a checklist record the policy excludes is in neither
\* the matched nor the unmatched list, so matches plus unmatched checklist
\* records equals the number of policy-admitted records, which under 'all' is
\* the number of checklist records.
C27_JoinAccounting ==
    pc = "joined" =>
        LET st == joinResult.stats
        IN  /\ st.successfulMatches + st.unmatchedIBPRecords = st.totalIBPRecords
            /\ st.totalIBPRecords = Len(ibpRecords)
            /\ st.totalEBirdRecords = Len(ebirdRecords)
            /\ st.successfulMatches = Len(joinResult.matched)
            /\ st.unmatchedEBirdRecords = Len(joinResult.unmatchedEBird)
            /\ st.unmatchedIBPRecords = Len(joinResult.unmatchedIBP)
            /\ \A i \in 1..Len(ebirdRecords) \ AdmittedRecords :
                   /\ MatchedAt(i) = 0
                   /\ \A k \in 1..Len(joinResult.unmatchedEBird) :
                          joinResult.unmatchedEBird[k] # i
            /\ st.successfulMatches + st.unmatchedEBirdRecords = Cardinality(AdmittedRecords)
            /\ variantPolicy = "all" =>
                   st.successfulMatches + st.unmatchedEBirdRecords = st.totalEBirdRecords

C27_Witness ==
    /\ pc = "joined"
    /\ variantPolicy = "species+subspecies"
    /\ joinResult.stats.successfulMatches = 1
    /\ joinResult.stats.unmatchedEBirdRecords = 1
    /\ joinResult.stats.unmatchedIBPRecords = 1
    /\ joinResult.stats.totalEBirdRecords = 3
    /\ Cardinality(AdmittedRecords) = 2

\* Checklist record i has a banding record with its full name in the input
HasExactPartner(i) ==
    \E b \in 1..Len(ibpRecords) : ibpRecords[b].scientificName = ebirdRecords[i].scientificName

\* C28: a binomial-fallback match never takes a banding record away from a
\* checklist record that matches it exactly: every policy-admitted checklist
\* record that has a banding record with its full name in the input ends up
\* matched to a banding record with that full name.
C28_ExactPartnerKept ==
    pc = "joined" =>
        \A i \in AdmittedRecords :
            HasExactPartner(i) =>
                /\ MatchedAt(i) # 0
                /\ ibpRecords[matchedFrom[MatchedAt(i)][2]].scientificName
                       = ebirdRecords[i].scientificName

\* C29: when the run metadata is valid, transformToMappingRecords classifies
\* every joined pair exactly once: successfulTransformations + validationErrors
\* + duplicateAlpha4Codes = totalInputRecords = the number of pairs given, and
\* metadata.recordCount = successfulTransformations = the number of returned
\* mapping records.
C29_PairsClassifiedOnce ==
    (pc = "transformed" /\ ~BadMetadata(options)) =>
        LET st == transformResult.stats
        IN  /\ st.totalInputRecords = Len(joinedRecords)
            /\ st.successfulTransformations + st.validationErrors + st.duplicateAlpha4Codes
                   = st.totalInputRecords
            /\ transformResult.metadata.recordCount = st.successfulTransformations
            /\ st.successfulTransformations = Len(transformResult.mappingRecords)

C29_Witness ==
    /\ pc = "transformed"
    /\ ~BadMetadata(options)
    /\ transformResult.stats.totalInputRecords = 3
    /\ transformResult.stats.successfulTransformations = 1
    /\ transformResult.stats.validationErrors = 1
    /\ transformResult.stats.duplicateAlpha4Codes = 1
    /\ transformResult.metadata.recordCount = 1

\* The path <dir>/map-<version>.json
MapFileIn(dir, version) ==
    [dir |-> dir, file |-> <<"m","a","p","-">> \o version \o <<".","j","s","o","n">>]

\* The current call got past its checks and parsed both inputs, and one of
\* them gave no record
ParsedToNothing ==
    /\ ebirdParsed # NONE /\ ibpParsed # NONE
    /\ Len(ebirdParsed.records) = 0 \/ Len(ibpParsed.records) = 0

\* C30: runBuildMapping does not stop on a source parse failure: a call with a
\* well-formed version, existing inputs and a parseable updatedAt in which a
\* source parses to zero records does not end by throwing; it ends with an
\* artifact holding an empty array and recordCount 0.  Whenever a call returns,
\* recordCount is the number of records in the written file and outputPath is
\* <outputDir>/map-<mapVersion>.json (outputDir defaulting to data/mapping).
C30_SurvivesParseFailure ==
    /\ (/\ pc \in {"build_done", "build_failed"}
        /\ ParsedToNothing
        /\ ~DateParseIsNaN(buildOpts.updatedAt))
       => /\ pc = "build_done"
          /\ buildResult.recordCount = 0
          /\ buildResult.outputPath \in DOMAIN disk.files
          /\ disk.files[buildResult.outputPath] = <<>>
    /\ pc = "build_done"
       => /\ buildResult.outputPath =
                 MapFileIn(IF buildOpts.outputDir = "absent" THEN S_data_mapping
                           ELSE buildOpts.outputDir,
                           buildOpts.mapVersion)
          /\ buildResult.mapVersion = buildOpts.mapVersion
          /\ buildResult.outputPath \in DOMAIN disk.files
          /\ buildResult.outputPath.dir \in disk.dirs
          /\ buildResult.recordCount = Len(disk.files[buildResult.outputPath])

C30_Witness ==
    /\ pc = "build_done"
    /\ Len(ebirdParsed.records) = 0
    /\ Len(ebirdParsed.errors) > 0
    /\ Len(ibpParsed.records) > 0
    /\ buildResult.recordCount = 0
    /\ disk.files[buildResult.outputPath] = <<>>
    /\ buildOpts.outputDir = "absent"
====
